---- MODULE Spec2Model ----
(***************************************************************************)
(* A model of pgfuse (src/pgfuse.c): a FUSE filesystem whose inodes and    *)
(* data blocks live in a PostgreSQL database.  The FUSE handlers of        *)
(* pgfuse.c are translated one by one.  The database access layer          *)
(* (pgsql.c / pgsql.h: the psql_* functions and the PSQL_BEGIN / COMMIT /  *)
(* ROLLBACK macros) and the connection pool (pool.c) are not part of       *)
(* src/; they are modelled from the specification (spec.md 4.1 - 4.3).     *)
(*                                                                         *)
(* A handler is a pure operator from the database state and its arguments  *)
(* to a result record                                                      *)
(*     [res, db, fh, ev, mem, out]                                         *)
(* res: the value returned to FUSE,  db: the committed database state      *)
(* after the handler,  fh: fi->fh after the handler,  ev: the connection   *)
(* and transaction calls made, in order,  mem: the strdup/free calls made, *)
(* in order,  out: what was written to the caller's buffers.               *)
(* The FUSE bridge is modelled by two steps: a handler is invoked and runs *)
(* to its return (pc = "ret", its outcome kept in last), then the reply is *)
(* consumed (pc = "idle").  With queued set, the kernel has the next       *)
(* request waiting: the reply and the next dispatch are one step, and the  *)
(* record of the call just answered is kept in last.prev.                  *)
(* Handlers running at the same time on two threads of the bridge, each in *)
(* its own transaction, are kept in txn (SpecTxn).                         *)
(***************************************************************************)
EXTENDS Integers, Sequences, FiniteSets, TLC

VARIABLES db, read_only, multi_threaded, conns, fh, pc, last, queued, txn

vars == <<db, read_only, multi_threaded, conns, fh, pc, last, queued, txn>>

---------------------------------------------------------------------------
(* Bounds of the model *)

\* inode ids are handed out serially and never reused; no id above MaxId
MaxId == 2
\* data->block_size, fixed at mount (-o blocksize=N)
BlockSize == 2
\* largest file offset (and truncate size) an invocation is given
MaxOff == 4
\* connections in the pool (multi-threaded mode)
PoolSize == 1

---------------------------------------------------------------------------
(* errno values (<errno.h>), file type bits (<sys/stat.h>), open flags *)

EPERM == 1
ENOENT == 2
EIO == 5
EBADF == 9
ENOMEM == 12
EEXIST == 17
ENOTDIR == 20
EISDIR == 21
EINVAL == 22
EROFS == 30
ENOTEMPTY == 39

S_IFDIR == 16384
S_IFREG == 32768
S_IFLNK == 40960

O_RDONLY == 0
O_WRONLY == 1
O_ACCMODE == 3

\* the file type bits of a mode: mode & S_IFMT (S_IFMT = 0170000)
FileType(mode) == ((mode \div 4096) % 16) * 4096
S_ISDIR(mode) == FileType(mode) = S_IFDIR
S_ISREG(mode) == FileType(mode) = S_IFREG
S_ISLNK(mode) == FileType(mode) = S_IFLNK

RECURSIVE BitOr(_, _)
BitOr(a, b) ==
    IF a = 0 THEN b
    ELSE IF b = 0 THEN a
    ELSE (IF a % 2 = 1 \/ b % 2 = 1 THEN 1 ELSE 0) + 2 * BitOr(a \div 2, b \div 2)

Min(a, b) == IF a < b THEN a ELSE b
Max(a, b) == IF a > b THEN a ELSE b

---------------------------------------------------------------------------
(* Paths: a path is the sequence of its components, "/" is <<>> *)

\* dirname(3): the path without its last component; dirname("/") = "/"
dirname(path) == IF path = <<>> THEN <<>> ELSE SubSeq(path, 1, Len(path) - 1)
\* basename(3): the last component; basename("/") = "/"
basename(path) == IF path = <<>> THEN "/" ELSE path[Len(path)]

---------------------------------------------------------------------------
(* The database: inodes (table dir), blocks (table data), the id sequence *)

\* the canonical id of the root inode, whose parent is itself
RootId == 0

Ids(d) == DOMAIN d.inodes

\* PgMeta plus the row's parent_id and name
Meta(parent_id, name, mode, uid, gid, size, t) ==
    [parent_id |-> parent_id, name |-> name, mode |-> mode, uid |-> uid,
     gid |-> gid, size |-> size, atime |-> t, mtime |-> t, ctime |-> t]

\* the rows whose parent_id is id (for the root this includes the root)
ChildRows(d, id) == {i \in Ids(d) : d.inodes[i].parent_id = id}
\* the direct children of a directory: the entries inside it
DirectChildren(d, id) == ChildRows(d, id) \ {id}

Zeros(n) == [i \in 1..n |-> 0]

BlocksOf(d, id) == {k \in DOMAIN d.blocks : k[1] = id}

---------------------------------------------------------------------------
(* The database access layer (spec.md 4.1) and the block engine (4.3).     *)
(* Every operation takes the state d of the open transaction and yields a  *)
(* non-negative value or a negative errno, and, if it writes, the state    *)
(* after it: [res, db].                                                    *)

\* the row with key (parent, name), or -ENOENT
LookupChild(d, parent, name) ==
    LET hit == {i \in ChildRows(d, parent) : d.inodes[i].name = name}
    IN IF hit = {} THEN -ENOENT ELSE CHOOSE i \in hit : TRUE

\* the path resolver: walk the components from the root
RECURSIVE Resolve(_, _, _, _)
Resolve(d, cur, path, k) ==
    IF k > Len(path) THEN cur
    ELSE IF ~S_ISDIR(d.inodes[cur].mode) THEN -ENOTDIR
    ELSE LET c == LookupChild(d, cur, path[k])
         IN IF c < 0 THEN c ELSE Resolve(d, c, path, k + 1)

\* read_meta_by_path: the id of the inode at path, or -ENOENT / -ENOTDIR;
\* its metadata is d.inodes[id]
psql_read_meta_from_path(d, path) ==
    IF RootId \notin Ids(d) THEN -ENOENT ELSE Resolve(d, RootId, path, 1)

\* read_meta_by_id: the id is authoritative
psql_read_meta(d, id) == IF id \in Ids(d) THEN id ELSE -ENOENT

\* write_meta: overwrites mode, uid, gid, size and the three timestamps
psql_write_meta(d, id, meta) ==
    IF id \notin Ids(d) THEN [res |-> -EIO, db |-> d]
    ELSE [res |-> 0,
          db |-> [d EXCEPT !.inodes[id] =
                     [@ EXCEPT !.mode = meta.mode, !.uid = meta.uid,
                               !.gid = meta.gid, !.size = meta.size,
                               !.atime = meta.atime, !.mtime = meta.mtime,
                               !.ctime = meta.ctime]]]

\* create_file / create_dir: insert a new inode under parent_id; -EEXIST on
\* the unique (parent_id, name) constraint; increments the parent's size
psql_create_file(d, parent_id, name, meta) ==
    IF \E i \in Ids(d) : d.inodes[i].parent_id = parent_id /\ d.inodes[i].name = name
    THEN [res |-> -EEXIST, db |-> d]
    ELSE IF parent_id \notin Ids(d) THEN [res |-> -EIO, db |-> d]
    ELSE LET id == d.nextid
             row == [meta EXCEPT !.parent_id = parent_id, !.name = name]
             withrow == [i \in Ids(d) \cup {id} |->
                            IF i = id THEN row ELSE d.inodes[i]]
         IN [res |-> 0,
             db |-> [d EXCEPT !.inodes =
                                [withrow EXCEPT ![parent_id].size = @ + 1],
                              !.nextid = id + 1]]

psql_create_dir(d, parent_id, name, meta) == psql_create_file(d, parent_id, name, meta)

\* delete_file: deletes the inode and all its blocks and decrements the
\* parent's child count
psql_delete_file(d, id) ==
    IF id \notin Ids(d) THEN [res |-> -EIO, db |-> d]
    ELSE LET parent == d.inodes[id].parent_id
             rest == [i \in Ids(d) \ {id} |-> d.inodes[i]]
         IN [res |-> 0,
             db |-> [d EXCEPT
                 !.inodes = IF parent \in DOMAIN rest
                            THEN [rest EXCEPT ![parent].size = @ - 1]
                            ELSE rest,
                 !.blocks = [k \in DOMAIN d.blocks \ BlocksOf(d, id) |-> d.blocks[k]]]]

\* delete_dir: additionally verifies that no row has the directory as parent
psql_delete_dir(d, id) ==
    IF id \in Ids(d) /\ ChildRows(d, id) # {}
    THEN [res |-> -ENOTEMPTY, db |-> d]
    ELSE psql_delete_file(d, id)

\* rename: updates the inode's parent and name in one statement; the unique
\* (parent_id, name) constraint rejects a name taken in the new parent
psql_rename(d, from_id, from_parent_id, to_parent_id, new_name) ==
    IF from_id \notin Ids(d) \/ to_parent_id \notin Ids(d) THEN [res |-> -EIO, db |-> d]
    ELSE IF \E i \in Ids(d) \ {from_id} :
               d.inodes[i].parent_id = to_parent_id /\ d.inodes[i].name = new_name
    THEN [res |-> -EIO, db |-> d]
    ELSE [res |-> 0,
          db |-> [d EXCEPT !.inodes[from_id] =
                     [@ EXCEPT !.parent_id = to_parent_id, !.name = new_name]]]

\* list_dir: one name per child
psql_readdir(d, id) == {d.inodes[i].name : i \in DirectChildren(d, id)}

\* read_block: the bytes of a block, zeros for an absent (sparse) block
BlockBytes(d, id, b) ==
    IF <<id, b>> \in DOMAIN d.blocks THEN d.blocks[<<id, b>>] ELSE Zeros(BlockSize)

\* the byte at position pos of the stored blocks of id
ByteAt(d, id, pos) == BlockBytes(d, id, pos \div BlockSize)[(pos % BlockSize) + 1]

\* block engine, read: min(length, max(0, size - offset)) bytes
psql_read_buf(d, id, offset, size) ==
    IF id \notin Ids(d) THEN [res |-> -ENOENT, buf |-> <<>>]
    ELSE LET n == Min(size, Max(0, d.inodes[id].size - offset))
         IN [res |-> n, buf |-> [i \in 1..n |-> ByteAt(d, id, offset + i - 1)]]

\* block engine, write: every block touched by [offset, offset+size) is
\* written whole, directly if the write covers it, otherwise after
\* overlaying the range on the stored block (zeros if absent);
\* returns the number of bytes written
psql_write_buf(d, id, buf, offset, size) ==
    IF id \notin Ids(d) THEN [res |-> -EIO, db |-> d]
    ELSE IF size = 0 THEN [res |-> 0, db |-> d]
    ELSE LET first == offset \div BlockSize
             lastb == (offset + size - 1) \div BlockSize
             touched == {<<id, b>> : b \in first..lastb}
             newblock(b) ==
                 [i \in 1..BlockSize |->
                     LET pos == b * BlockSize + (i - 1)
                     IN IF pos >= offset /\ pos < offset + size
                        THEN buf[pos - offset + 1]
                        ELSE BlockBytes(d, id, b)[i]]
         IN [res |-> size,
             db |-> [d EXCEPT !.blocks =
                        [k \in DOMAIN d.blocks \cup touched |->
                            IF k \in touched THEN newblock(k[2]) ELSE d.blocks[k]]]]

\* block engine, truncate to new_size: delete every block after the last
\* one, and zero the tail of the last block if new_size is inside it
psql_truncate(d, id, new_size) ==
    IF id \notin Ids(d) THEN [res |-> -EIO, db |-> d]
    ELSE LET lastb == IF new_size = 0 THEN -1 ELSE (new_size - 1) \div BlockSize
             keep == {k \in DOMAIN d.blocks : k[1] # id \/ k[2] <= lastb}
             cut == new_size % BlockSize
         IN [res |-> 0,
             db |-> [d EXCEPT !.blocks =
                        [k \in keep |->
                            IF k = <<id, lastb>> /\ cut # 0
                            THEN [i \in 1..BlockSize |->
                                     IF i > cut THEN 0 ELSE d.blocks[k][i]]
                            ELSE d.blocks[k]]]]

\* count_blocks_used / count_inodes_used
psql_get_fs_blocks_used(d) == Cardinality(DOMAIN d.blocks)
psql_get_fs_files_used(d) == Cardinality(Ids(d))

---------------------------------------------------------------------------
(* The handlers of pgfuse.c.                                                *)
(* c is the mount and calling context: [ro, uid, gid, now].                 *)
(* f names the one call that fails in this invocation, "none" if none:      *)
(*   "db1", "db2", ...  the n-th database call of the handler returns -EIO  *)
(*   "mem1", "mem2"     the n-th strdup returns NULL                        *)
(*   "short"            the block engine reports one byte less than asked   *)
(*   "host"             statfs(2) on the host fails                         *)
(* A call that is not reached on the path taken cannot fail.                *)

\* nothing is written to the caller's buffers
NoOut == [buf |-> <<>>]

Result(res, d, h, ev, mem, out) ==
    [res |-> res, db |-> d, fh |-> h, ev |-> ev, mem |-> mem, out |-> out]

\* ACQUIRE( conn ); PSQL_BEGIN( conn );
AcquireBegin == <<"acquire", "begin">>

\* PSQL_ROLLBACK( conn ); RELEASE( conn ); return res;   (nothing is stored)
Rollback(res, d, h, mem) ==
    Result(res, d, h, AcquireBegin \o <<"rollback", "release">>, mem, NoOut)

\* PSQL_COMMIT( conn ); RELEASE( conn ); return res;   (d2 becomes durable)
Commit(res, d2, h, mem, out) ==
    Result(res, d2, h, AcquireBegin \o <<"commit", "release">>, mem, out)

\* return res;  with neither PSQL_ROLLBACK / PSQL_COMMIT nor RELEASE
BareReturn(res, d, h, mem) == Result(res, d, h, AcquireBegin, mem, NoOut)

\* the struct stat after memset( stbuf, 0, sizeof( struct stat ) )
ZeroStat ==
    [ino |-> 0, mode |-> 0, size |-> 0, blksize |-> 0, blocks |-> 0, nlink |-> 0,
     uid |-> 0, gid |-> 0, atime |-> 0, mtime |-> 0, ctime |-> 0]

\* the fields both getattr and fgetattr fill in
StatOf(id, meta) ==
    [ZeroStat EXCEPT !.ino = id, !.mode = meta.mode, !.size = meta.size,
                     !.blksize = BlockSize,
                     !.blocks = (meta.size + BlockSize - 1) \div BlockSize,
                     !.nlink = 1, !.uid = meta.uid, !.gid = meta.gid]

pgfuse_fgetattr(d, c, h, f) ==
    LET id == IF f = "db1" THEN -EIO ELSE psql_read_meta(d, h)
    IN IF id < 0
       THEN Result(id, d, h, AcquireBegin \o <<"rollback", "release">>, <<>>, ZeroStat)
       ELSE Commit(0, d, h, <<>>, StatOf(id, d.inodes[id]))

pgfuse_getattr(d, c, path, h, f) ==
    LET id == IF f = "db1" THEN -EIO ELSE psql_read_meta_from_path(d, path)
    IN IF id < 0
       THEN Result(id, d, h, AcquireBegin \o <<"rollback", "release">>, <<>>, ZeroStat)
       ELSE LET meta == d.inodes[id]
            IN Commit(0, d, h, <<>>,
                      [StatOf(id, meta) EXCEPT !.atime = meta.atime,
                                               !.mtime = meta.mtime,
                                               !.ctime = meta.ctime])

\* the inode record create, mkdir and symlink fill in
NewMeta(c, mode, size) == Meta(-1, "", mode, c.uid, c.gid, size, c.now)

\* a create that answers an existing file as open does: it stores the id in
\* the file handle and returns 0
CreateOpensExisting(d, c, path, mode, h, f) ==
    IF c.ro THEN Rollback(-EROFS, d, h, <<>>)
    ELSE
    LET id == IF f = "db1" THEN -EIO ELSE psql_read_meta_from_path(d, path)
    IN IF id < 0 /\ id # -ENOENT THEN Rollback(id, d, h, <<>>)
       ELSE IF id >= 0
       THEN (IF S_ISDIR(d.inodes[id].mode)
             THEN Rollback(-EISDIR, d, h, <<>>)
             ELSE Commit(0, d, id, <<>>, NoOut))
       ELSE IF f = "mem1" THEN Rollback(-ENOMEM, d, h, <<>>)
       ELSE
       LET parent_id == IF f = "db2" THEN -EIO
                        ELSE psql_read_meta_from_path(d, dirname(path))
       IN IF parent_id < 0 THEN Rollback(parent_id, d, h, <<"strdup1">>)
          ELSE IF ~S_ISDIR(d.inodes[parent_id].mode)
          THEN Rollback(-ENOENT, d, h, <<"strdup1">>)
          ELSE IF f = "mem2"
          \* free( parent_path ): dirname returned the buffer just freed
          THEN Rollback(-ENOMEM, d, h, <<"strdup1", "free1", "free1">>)
          ELSE
          LET cr == IF f = "db3" THEN [res |-> -EIO, db |-> d]
                    ELSE psql_create_file(d, parent_id, basename(path),
                                          NewMeta(c, mode, 0))
              done == <<"strdup1", "free1", "strdup2", "free2">>
          IN IF cr.res < 0 THEN Rollback(cr.res, d, h, done)
             ELSE
             LET nid == IF f = "db4" THEN -EIO
                        ELSE psql_read_meta_from_path(cr.db, path)
             IN IF nid < 0 THEN Rollback(cr.res, d, h, done)
                ELSE Commit(cr.res, cr.db, nid, done, NoOut)

\* a create that does not look the path up first and leaves the refusal to
\* the unique (parent_id, name) constraint
CreateWithoutLookup(d, c, path, mode, h, f) ==
    IF c.ro THEN Rollback(-EROFS, d, h, <<>>)
    ELSE
    LET id == -ENOENT
    IN IF id < 0 /\ id # -ENOENT THEN Rollback(id, d, h, <<>>)
       ELSE IF id >= 0
       THEN (IF S_ISDIR(d.inodes[id].mode)
             THEN Rollback(-EISDIR, d, h, <<>>)
             ELSE Rollback(-EEXIST, d, h, <<>>))
       ELSE IF f = "mem1" THEN Rollback(-ENOMEM, d, h, <<>>)
       ELSE
       LET parent_id == IF f = "db2" THEN -EIO
                        ELSE psql_read_meta_from_path(d, dirname(path))
       IN IF parent_id < 0 THEN Rollback(parent_id, d, h, <<"strdup1">>)
          ELSE IF ~S_ISDIR(d.inodes[parent_id].mode)
          THEN Rollback(-ENOENT, d, h, <<"strdup1">>)
          ELSE IF f = "mem2"
          \* free( parent_path ): dirname returned the buffer just freed
          THEN Rollback(-ENOMEM, d, h, <<"strdup1", "free1", "free1">>)
          ELSE
          LET cr == IF f = "db3" THEN [res |-> -EIO, db |-> d]
                    ELSE psql_create_file(d, parent_id, basename(path),
                                          NewMeta(c, mode, 0))
              done == <<"strdup1", "free1", "strdup2", "free2">>
          IN IF cr.res < 0 THEN Rollback(cr.res, d, h, done)
             ELSE
             LET nid == IF f = "db4" THEN -EIO
                        ELSE psql_read_meta_from_path(cr.db, path)
             IN IF nid < 0 THEN Rollback(cr.res, d, h, done)
                ELSE Commit(cr.res, cr.db, nid, done, NoOut)

pgfuse_create(d, c, path, mode, h, f) ==
    IF c.ro THEN Rollback(-EROFS, d, h, <<>>)
    ELSE
    LET id == IF f = "db1" THEN -EIO ELSE psql_read_meta_from_path(d, path)
    IN IF id < 0 /\ id # -ENOENT THEN Rollback(id, d, h, <<>>)
       ELSE IF id >= 0
       THEN (IF S_ISDIR(d.inodes[id].mode)
             THEN Rollback(-EISDIR, d, h, <<>>)
             ELSE Rollback(-EEXIST, d, h, <<>>))
       ELSE IF f = "mem1" THEN Rollback(-ENOMEM, d, h, <<>>)
       ELSE
       LET parent_id == IF f = "db2" THEN -EIO
                        ELSE psql_read_meta_from_path(d, dirname(path))
       IN IF parent_id < 0 THEN Rollback(parent_id, d, h, <<"strdup1">>)
          ELSE IF ~S_ISDIR(d.inodes[parent_id].mode)
          THEN Rollback(-ENOENT, d, h, <<"strdup1">>)
          ELSE IF f = "mem2"
          \* free( parent_path ): dirname returned the buffer just freed
          THEN Rollback(-ENOMEM, d, h, <<"strdup1", "free1", "free1">>)
          ELSE
          LET cr == IF f = "db3" THEN [res |-> -EIO, db |-> d]
                    ELSE psql_create_file(d, parent_id, basename(path),
                                          NewMeta(c, mode, 0))
              done == <<"strdup1", "free1", "strdup2", "free2">>
          IN IF cr.res < 0 THEN Rollback(cr.res, d, h, done)
             ELSE
             LET nid == IF f = "db4" THEN -EIO
                        ELSE psql_read_meta_from_path(cr.db, path)
             IN IF nid < 0 THEN Rollback(cr.res, d, h, done)
                ELSE Commit(cr.res, cr.db, nid, done, NoOut)

pgfuse_open(d, c, path, flags, h, f) ==
    LET id == IF f = "db1" THEN -EIO ELSE psql_read_meta_from_path(d, path)
    IN IF id < 0 THEN Rollback(id, d, h, <<>>)
       ELSE IF S_ISDIR(d.inodes[id].mode) THEN Rollback(-EISDIR, d, h, <<>>)
       ELSE IF c.ro /\ (flags % (O_ACCMODE + 1)) # O_RDONLY
       THEN Rollback(-EROFS, d, h, <<>>)
       ELSE
       LET w == IF f = "db2" THEN [res |-> -EIO, db |-> d]
                ELSE psql_write_meta(d, id, d.inodes[id])
       IN IF w.res < 0 THEN Rollback(w.res, d, h, <<>>)
          ELSE Commit(0, w.db, id, <<>>, NoOut)

pgfuse_readdir(d, c, path, h, f) ==
    LET id == IF f = "db1" THEN -EIO ELSE psql_read_meta_from_path(d, path)
        dots == [names |-> {".", ".."}]
    IN IF id < 0
       THEN Result(id, d, h, AcquireBegin \o <<"rollback", "release">>, <<>>, dots)
       ELSE IF f = "db2"
       THEN Result(-EIO, d, h, AcquireBegin \o <<"rollback", "release">>, <<>>, dots)
       ELSE Commit(0, d, h, <<>>, [names |-> dots.names \cup psql_readdir(d, id)])

pgfuse_mkdir(d, c, path, mode, h, f) ==
    IF c.ro THEN Rollback(-EROFS, d, h, <<>>)
    ELSE IF f = "mem1" THEN Rollback(-ENOMEM, d, h, <<>>)
    ELSE
    LET parent_id == IF f = "db1" THEN -EIO
                     ELSE psql_read_meta_from_path(d, dirname(path))
    IN IF parent_id < 0 THEN Rollback(parent_id, d, h, <<"strdup1">>)
       ELSE IF ~S_ISDIR(d.inodes[parent_id].mode)
       THEN Rollback(-ENOENT, d, h, <<"strdup1">>)
       ELSE IF f = "mem2"
       THEN Rollback(-ENOMEM, d, h, <<"strdup1", "free1", "free1">>)
       ELSE
       LET cr == IF f = "db2" THEN [res |-> -EIO, db |-> d]
                 ELSE psql_create_dir(d, parent_id, basename(path),
                                      NewMeta(c, BitOr(mode, S_IFDIR), 0))
           done == <<"strdup1", "free1", "strdup2", "free2">>
       IN IF cr.res < 0 THEN Rollback(cr.res, d, h, done)
          ELSE Commit(0, cr.db, h, done, NoOut)

\* an rmdir that does not test the type of the inode
RmdirAnyType(d, c, path, h, f) ==
    LET id == IF f = "db1" THEN -EIO ELSE psql_read_meta_from_path(d, path)
    IN IF id < 0 THEN Rollback(id, d, h, <<>>)
       ELSE IF c.ro THEN Rollback(-EROFS, d, h, <<>>)
       ELSE
       LET del == IF f = "db2" THEN [res |-> -EIO, db |-> d]
                  ELSE psql_delete_dir(d, id)
       IN IF del.res < 0 THEN Rollback(del.res, d, h, <<>>)
          ELSE Commit(0, del.db, h, <<>>, NoOut)

pgfuse_rmdir(d, c, path, h, f) ==
    LET id == IF f = "db1" THEN -EIO ELSE psql_read_meta_from_path(d, path)
    IN IF id < 0 THEN Rollback(id, d, h, <<>>)
       ELSE IF ~S_ISDIR(d.inodes[id].mode) THEN Rollback(-ENOTDIR, d, h, <<>>)
       ELSE IF c.ro THEN Rollback(-EROFS, d, h, <<>>)
       ELSE
       LET del == IF f = "db2" THEN [res |-> -EIO, db |-> d]
                  ELSE psql_delete_dir(d, id)
       IN IF del.res < 0 THEN Rollback(del.res, d, h, <<>>)
          ELSE Commit(0, del.db, h, <<>>, NoOut)

\* an unlink that does not test the type of the inode
UnlinkAnyType(d, c, path, h, f) ==
    LET id == IF f = "db1" THEN -EIO ELSE psql_read_meta_from_path(d, path)
    IN IF id < 0 THEN Rollback(id, d, h, <<>>)
       ELSE IF c.ro THEN Rollback(-EROFS, d, h, <<>>)
       ELSE
       LET del == IF f = "db2" THEN [res |-> -EIO, db |-> d]
                  ELSE psql_delete_file(d, id)
       IN IF del.res < 0 THEN Rollback(del.res, d, h, <<>>)
          ELSE Commit(0, del.db, h, <<>>, NoOut)

pgfuse_unlink(d, c, path, h, f) ==
    LET id == IF f = "db1" THEN -EIO ELSE psql_read_meta_from_path(d, path)
    IN IF id < 0 THEN Rollback(id, d, h, <<>>)
       ELSE IF S_ISDIR(d.inodes[id].mode) THEN Rollback(-EPERM, d, h, <<>>)
       ELSE IF c.ro THEN Rollback(-EROFS, d, h, <<>>)
       ELSE
       LET del == IF f = "db2" THEN [res |-> -EIO, db |-> d]
                  ELSE psql_delete_file(d, id)
       IN IF del.res < 0 THEN Rollback(del.res, d, h, <<>>)
          ELSE Commit(0, del.db, h, <<>>, NoOut)

\* a write that leaves meta.size as it was read
KeepSize(meta, offset, size) == meta

\* a write that stores the end of the written range as the size
SetSize(meta, offset, size) == [meta EXCEPT !.size = offset + size]

\* if( offset + size > meta.size ) meta.size = offset + size;
GrowSize(meta, offset, size) ==
    IF offset + size > meta.size THEN [meta EXCEPT !.size = offset + size] ELSE meta

pgfuse_write(d, c, buf, offset, h, f) ==
    LET size == Len(buf)
    IN
    IF h = 0 THEN Rollback(-EBADF, d, h, <<>>)
    ELSE IF c.ro THEN Rollback(-EBADF, d, h, <<>>)
    ELSE
    LET tmp == IF f = "db1" THEN -EIO ELSE psql_read_meta(d, h)
    IN IF tmp < 0 THEN Rollback(tmp, d, h, <<>>)
       ELSE
       LET meta == GrowSize(d.inodes[h], offset, size)
           wb == IF f = "db2" THEN [res |-> -EIO, db |-> d]
                 ELSE IF f = "short" /\ size > 0
                 THEN [res |-> size - 1, db |-> psql_write_buf(d, h, buf, offset, size - 1).db]
                 ELSE psql_write_buf(d, h, buf, offset, size)
       IN IF wb.res < 0 THEN Rollback(wb.res, d, h, <<>>)
          ELSE IF wb.res # size THEN Rollback(-EIO, d, h, <<>>)
          ELSE
          LET wm == IF f = "db3" THEN [res |-> -EIO, db |-> d]
                    ELSE psql_write_meta(wb.db, h, meta)
          IN IF wm.res < 0 THEN Rollback(wm.res, d, h, <<>>)
             ELSE Commit(size, wm.db, h, <<>>, NoOut)

\* a read that does not clamp the length to the size of the file
ReadPastEnd(d, c, offset, size, h, f) ==
    IF h = 0 THEN Rollback(-EBADF, d, h, <<>>)
    ELSE IF h \notin Ids(d) THEN Rollback(-ENOENT, d, h, <<>>)
    ELSE Commit(size, d, h, <<>>,
                [buf |-> [i \in 1..size |-> ByteAt(d, h, offset + i - 1)]])

\* a read that always starts at the beginning of the file
ReadIgnoringOffset(d, c, offset, size, h, f) ==
    IF h = 0 THEN Rollback(-EBADF, d, h, <<>>)
    ELSE
    LET rb == IF f = "db1" THEN [res |-> -EIO, buf |-> <<>>]
              ELSE psql_read_buf(d, h, 0, size)
    IN IF rb.res < 0 THEN Rollback(rb.res, d, h, <<>>)
       ELSE Commit(rb.res, d, h, <<>>, [buf |-> rb.buf])

pgfuse_read(d, c, offset, size, h, f) ==
    IF h = 0 THEN Rollback(-EBADF, d, h, <<>>)
    ELSE
    LET rb == IF f = "db1" THEN [res |-> -EIO, buf |-> <<>>]
              ELSE psql_read_buf(d, h, offset, size)
    IN IF rb.res < 0 THEN Rollback(rb.res, d, h, <<>>)
       ELSE Commit(rb.res, d, h, <<>>, [buf |-> rb.buf])

\* a truncation that stores the new size and leaves the blocks alone
TruncateSizeOnly(d, id, meta, offset, f) ==
    IF f = "db3" THEN [res |-> -EIO, db |-> d]
    ELSE psql_write_meta(d, id, [meta EXCEPT !.size = offset])

\* res = psql_truncate( ... offset ); meta.size = offset;
\* res = psql_write_meta( ... meta );     (truncate and ftruncate alike)
TruncateTo(d, id, meta, offset, f) ==
    LET tr == IF f = "db2" THEN [res |-> -EIO, db |-> d]
              ELSE psql_truncate(d, id, offset)
    IN IF tr.res < 0 THEN tr
       ELSE IF f = "db3" THEN [res |-> -EIO, db |-> d]
       ELSE psql_write_meta(tr.db, id, [meta EXCEPT !.size = offset])

pgfuse_truncate(d, c, path, offset, h, f) ==
    LET id == IF f = "db1" THEN -EIO ELSE psql_read_meta_from_path(d, path)
    IN IF id < 0 THEN Rollback(id, d, h, <<>>)
       ELSE IF S_ISDIR(d.inodes[id].mode) THEN Rollback(-EISDIR, d, h, <<>>)
       ELSE IF c.ro THEN Rollback(-EROFS, d, h, <<>>)
       ELSE
       LET t == TruncateTo(d, id, d.inodes[id], offset, f)
       IN IF t.res < 0 THEN Rollback(t.res, d, h, <<>>)
          ELSE Commit(0, t.db, h, <<>>, NoOut)

\* an ftruncate that stores the new size and leaves the blocks alone
FtruncateSizeOnly(d, c, offset, h, f) ==
    IF h = 0 THEN Rollback(-EBADF, d, h, <<>>)
    ELSE
    LET id == IF f = "db1" THEN -EIO ELSE psql_read_meta(d, h)
    IN IF id < 0 THEN Rollback(id, d, h, <<>>)
       ELSE IF c.ro THEN Rollback(-EROFS, d, h, <<>>)
       ELSE
       LET t == TruncateSizeOnly(d, h, d.inodes[h], offset, f)
       IN IF t.res < 0 THEN Rollback(t.res, d, h, <<>>)
          ELSE Commit(0, t.db, h, <<>>, NoOut)

pgfuse_ftruncate(d, c, offset, h, f) ==
    IF h = 0 THEN Rollback(-EBADF, d, h, <<>>)
    ELSE
    LET id == IF f = "db1" THEN -EIO ELSE psql_read_meta(d, h)
    IN IF id < 0 THEN Rollback(id, d, h, <<>>)
       ELSE IF c.ro THEN Rollback(-EROFS, d, h, <<>>)
       ELSE
       LET t == TruncateTo(d, h, d.inodes[h], offset, f)
       IN IF t.res < 0 THEN Rollback(t.res, d, h, <<>>)
          ELSE Commit(0, t.db, h, <<>>, NoOut)

\* the database part of statfs; the host's mount table is not modelled here
pgfuse_statfs(d, c, h, f) ==
    IF f = "db1" THEN BareReturn(-EIO, d, h, <<>>)
    \* res = statfs( prefix, &fs ); if( res < 0 ) return res;
    ELSE IF f = "host" THEN BareReturn(-1, d, h, <<>>)
    ELSE IF f = "db2" THEN Rollback(-EIO, d, h, <<>>)
    ELSE IF f = "db3" THEN Rollback(-EIO, d, h, <<>>)
    ELSE Commit(0, d, h, <<>>,
                [blocks_used |-> psql_get_fs_blocks_used(d),
                 files_used |-> psql_get_fs_files_used(d),
                 bsize |-> BlockSize, rdonly |-> c.ro])

\* a chmod that returns 0 whether or not the record could be stored
ChmodIgnoresWriteError(d, c, path, mode, h, f) ==
    LET id == IF f = "db1" THEN -EIO ELSE psql_read_meta_from_path(d, path)
    IN IF id < 0 THEN Rollback(id, d, h, <<>>)
       ELSE IF c.ro THEN Rollback(-EROFS, d, h, <<>>)
       ELSE
       LET w == IF f = "db2" THEN [res |-> -EIO, db |-> d]
                ELSE psql_write_meta(d, id, [d.inodes[id] EXCEPT !.mode = mode])
       IN Commit(0, w.db, h, <<>>, NoOut)

\* a chmod that stores the permission bits and keeps the file type bits
ChmodKeepsType(d, c, path, mode, h, f) ==
    LET id == IF f = "db1" THEN -EIO ELSE psql_read_meta_from_path(d, path)
    IN IF id < 0 THEN Rollback(id, d, h, <<>>)
       ELSE IF c.ro THEN Rollback(-EROFS, d, h, <<>>)
       ELSE
       LET w == IF f = "db2" THEN [res |-> -EIO, db |-> d]
                ELSE psql_write_meta(d, id, [d.inodes[id] EXCEPT
                                         !.mode = FileType(@) + (mode % 4096)])
       IN IF w.res < 0 THEN Rollback(w.res, d, h, <<>>)
          ELSE Commit(0, w.db, h, <<>>, NoOut)

\* the metadata-only handlers: read the record, change fields, write it back
pgfuse_chmod(d, c, path, mode, h, f) ==
    LET id == IF f = "db1" THEN -EIO ELSE psql_read_meta_from_path(d, path)
    IN IF id < 0 THEN Rollback(id, d, h, <<>>)
       ELSE IF c.ro THEN Rollback(-EROFS, d, h, <<>>)
       ELSE
       LET w == IF f = "db2" THEN [res |-> -EIO, db |-> d]
                ELSE psql_write_meta(d, id, [d.inodes[id] EXCEPT !.mode = mode])
       IN IF w.res < 0 THEN Rollback(w.res, d, h, <<>>)
          ELSE Commit(0, w.db, h, <<>>, NoOut)

pgfuse_chown(d, c, path, uid, gid, h, f) ==
    LET id == IF f = "db1" THEN -EIO ELSE psql_read_meta_from_path(d, path)
    IN IF id < 0 THEN Rollback(id, d, h, <<>>)
       ELSE IF c.ro THEN Rollback(-EROFS, d, h, <<>>)
       ELSE
       LET w == IF f = "db2" THEN [res |-> -EIO, db |-> d]
                ELSE psql_write_meta(d, id, [d.inodes[id] EXCEPT !.uid = uid, !.gid = gid])
       IN IF w.res < 0 THEN Rollback(w.res, d, h, <<>>)
          ELSE Commit(w.res, w.db, h, <<>>, NoOut)

pgfuse_utimens(d, c, path, tv, h, f) ==
    LET id == IF f = "db1" THEN -EIO ELSE psql_read_meta_from_path(d, path)
    IN IF id < 0 THEN Rollback(id, d, h, <<>>)
       ELSE
       LET w == IF f = "db2" THEN [res |-> -EIO, db |-> d]
                ELSE psql_write_meta(d, id, [d.inodes[id] EXCEPT !.atime = tv[1],
                                                                 !.mtime = tv[2]])
       IN IF w.res < 0 THEN Rollback(w.res, d, h, <<>>)
          ELSE Commit(0, w.db, h, <<>>, NoOut)

\* from is the link target (its bytes), to the path of the new symlink
pgfuse_symlink(d, c, from, to, h, f) ==
    IF f = "mem1" THEN Rollback(-ENOMEM, d, h, <<>>)
    ELSE
    LET parent_id == IF f = "db1" THEN -EIO
                     ELSE psql_read_meta_from_path(d, dirname(to))
    IN IF parent_id < 0 THEN Rollback(parent_id, d, h, <<"strdup1">>)
       ELSE IF ~S_ISDIR(d.inodes[parent_id].mode)
       THEN Rollback(-ENOENT, d, h, <<"strdup1">>)
       ELSE IF f = "mem2" THEN Rollback(-ENOMEM, d, h, <<"strdup1", "free1">>)
       ELSE
       LET done == <<"strdup1", "free1", "strdup2", "free2">>
       IN IF c.ro THEN Rollback(-EROFS, d, h, done)
          ELSE
          LET cr == IF f = "db2" THEN [res |-> -EIO, db |-> d]
                    ELSE psql_create_file(d, parent_id, basename(to),
                                          NewMeta(c, BitOr(511, S_IFLNK), Len(from)))
          IN IF cr.res < 0 THEN Rollback(cr.res, d, h, done)
             ELSE
             LET id == IF f = "db3" THEN -EIO
                       ELSE psql_read_meta_from_path(cr.db, to)
             IN IF id < 0 THEN Rollback(id, d, h, done)
                ELSE
                LET wb == IF f = "db4" THEN [res |-> -EIO, db |-> d]
                          ELSE IF f = "short" /\ Len(from) > 0
                          THEN [res |-> Len(from) - 1, db |-> cr.db]
                          ELSE psql_write_buf(cr.db, id, from, 0, Len(from))
                IN IF wb.res < 0 THEN Rollback(wb.res, d, h, done)
                   ELSE IF wb.res # Len(from) THEN Rollback(-EIO, d, h, done)
                   ELSE Commit(0, wb.db, h, done, NoOut)

\* a rename that does not compare the two paths when the destination is a
\* regular file
RenameOntoFileSucceeds(d, c, from, to, h, f) ==
    LET from_id == IF f = "db1" THEN -EIO ELSE psql_read_meta_from_path(d, from)
    IN IF from_id < 0 THEN BareReturn(from_id, d, h, <<>>)
       ELSE
       LET to_id == IF f = "db2" THEN -EIO ELSE psql_read_meta_from_path(d, to)
       IN IF to_id < 0 /\ to_id # -ENOENT THEN BareReturn(to_id, d, h, <<>>)
          ELSE IF to_id > 0
          THEN (IF S_ISREG(d.inodes[to_id].mode)
                THEN BareReturn(0, d, h, <<>>)
                ELSE BareReturn(-EINVAL, d, h, <<>>))
          ELSE IF f = "mem1" THEN Rollback(-ENOMEM, d, h, <<>>)
          ELSE
          LET to_parent_id == IF f = "db3" THEN -EIO
                              ELSE psql_read_meta_from_path(d, dirname(to))
          IN IF to_parent_id < 0
             THEN Rollback(to_parent_id, d, h, <<"strdup1", "free1">>)
             ELSE IF ~S_ISDIR(d.inodes[to_parent_id].mode)
             THEN Rollback(-EIO, d, h, <<"strdup1", "free1">>)
             ELSE IF f = "mem2" THEN Rollback(-ENOMEM, d, h, <<"strdup1", "free1">>)
             ELSE
             LET done == <<"strdup1", "free1", "strdup2", "free2">>
             IN IF c.ro THEN Rollback(-EROFS, d, h, done)
                ELSE
                LET rn == IF f = "db4" THEN [res |-> -EIO, db |-> d]
                          ELSE psql_rename(d, from_id, d.inodes[from_id].parent_id,
                                           to_parent_id, basename(to))
                \* PSQL_COMMIT( conn ); RELEASE( conn ); return res;
                IN Commit(rn.res, rn.db, h, done, NoOut)

pgfuse_rename(d, c, from, to, h, f) ==
    LET from_id == IF f = "db1" THEN -EIO ELSE psql_read_meta_from_path(d, from)
    IN IF from_id < 0 THEN BareReturn(from_id, d, h, <<>>)
       ELSE
       LET to_id == IF f = "db2" THEN -EIO ELSE psql_read_meta_from_path(d, to)
       IN IF to_id < 0 /\ to_id # -ENOENT THEN BareReturn(to_id, d, h, <<>>)
          ELSE IF to_id > 0
          THEN (IF S_ISREG(d.inodes[to_id].mode)
                THEN (IF from = to THEN BareReturn(0, d, h, <<>>)
                      ELSE BareReturn(-EEXIST, d, h, <<>>))
                ELSE BareReturn(-EINVAL, d, h, <<>>))
          ELSE IF f = "mem1" THEN Rollback(-ENOMEM, d, h, <<>>)
          ELSE
          LET to_parent_id == IF f = "db3" THEN -EIO
                              ELSE psql_read_meta_from_path(d, dirname(to))
          IN IF to_parent_id < 0
             THEN Rollback(to_parent_id, d, h, <<"strdup1", "free1">>)
             ELSE IF ~S_ISDIR(d.inodes[to_parent_id].mode)
             THEN Rollback(-EIO, d, h, <<"strdup1", "free1">>)
             ELSE IF f = "mem2" THEN Rollback(-ENOMEM, d, h, <<"strdup1", "free1">>)
             ELSE
             LET done == <<"strdup1", "free1", "strdup2", "free2">>
             IN IF c.ro THEN Rollback(-EROFS, d, h, done)
                ELSE
                LET rn == IF f = "db4" THEN [res |-> -EIO, db |-> d]
                          ELSE psql_rename(d, from_id, d.inodes[from_id].parent_id,
                                           to_parent_id, basename(to))
                \* PSQL_COMMIT( conn ); RELEASE( conn ); return res;
                IN Commit(rn.res, rn.db, h, done, NoOut)

\* a readlink that does not terminate the buffer
ReadlinkUnterminated(d, c, path, size, h, f) ==
    LET id == IF f = "db1" THEN -EIO ELSE psql_read_meta_from_path(d, path)
    IN IF id < 0 THEN Rollback(id, d, h, <<>>)
       ELSE IF ~S_ISLNK(d.inodes[id].mode) THEN Rollback(-ENOENT, d, h, <<>>)
       ELSE IF size < d.inodes[id].size + 1 THEN Rollback(-ENOMEM, d, h, <<>>)
       ELSE
       LET rb == IF f = "db2" THEN [res |-> -EIO, buf |-> <<>>]
                 ELSE psql_read_buf(d, id, 0, d.inodes[id].size)
       IN IF rb.res < 0 THEN Rollback(rb.res, d, h, <<>>)
          ELSE Commit(0, d, h, <<>>, [buf |-> rb.buf])

pgfuse_readlink(d, c, path, size, h, f) ==
    LET id == IF f = "db1" THEN -EIO ELSE psql_read_meta_from_path(d, path)
    IN IF id < 0 THEN Rollback(id, d, h, <<>>)
       ELSE IF ~S_ISLNK(d.inodes[id].mode) THEN Rollback(-ENOENT, d, h, <<>>)
       ELSE IF size < d.inodes[id].size + 1 THEN Rollback(-ENOMEM, d, h, <<>>)
       ELSE
       LET rb == IF f = "db2" THEN [res |-> -EIO, buf |-> <<>>]
                 ELSE psql_read_buf(d, id, 0, d.inodes[id].size)
       IN IF rb.res < 0 THEN Rollback(rb.res, d, h, <<>>)
          \* buf[meta.size] = '\0';
          ELSE Commit(0, d, h, <<>>, [buf |-> rb.buf \o <<0>>])

\* return res;  in a handler that has no ACQUIRE and no PSQL_BEGIN
NoConn(res, d, h) == Result(res, d, h, <<>>, <<>>, NoOut)

pgfuse_access(d, c, h) == NoConn(0, d, h)

pgfuse_opendir(d, c, h) == NoConn(0, d, h)

pgfuse_releasedir(d, c, h) == NoConn(0, d, h)

pgfuse_fsyncdir(d, c, h) == NoConn(0, d, h)

pgfuse_flush(d, c, h) == NoConn(0, d, h)

pgfuse_fsync(d, c, h) ==
    IF c.ro THEN NoConn(-EROFS, d, h)
    ELSE IF h = 0 THEN NoConn(-EBADF, d, h)
    ELSE NoConn(0, d, h)

pgfuse_release(d, c, h) == NoConn(0, d, h)

---------------------------------------------------------------------------
(* The state machine *)

Range(s) == {s[i] : i \in DOMAIN s}

\* the database as the schema installer leaves it: the root directory only
EmptyDb ==
    [inodes |-> [i \in {RootId} |-> Meta(RootId, "/", S_IFDIR + 493, 0, 0, 0, 0)],
     blocks |-> [k \in {} |-> Zeros(BlockSize)],
     nextid |-> 1]

\* a database written by an earlier mount: directory /a, file /a/b of 3 bytes
PopulatedDb ==
    [inodes |-> [i \in {RootId, 1, 2} |->
                    IF i = RootId THEN Meta(RootId, "/", S_IFDIR + 493, 0, 0, 1, 0)
                    ELSE IF i = 1 THEN Meta(RootId, "a", S_IFDIR + 493, 0, 0, 1, 1)
                    ELSE Meta(1, "b", S_IFREG + 420, 0, 0, BlockSize + 1, 1)],
     blocks |-> [k \in {<<2, 0>>, <<2, 1>>} |->
                    IF k[2] = 0 THEN [i \in 1..BlockSize |-> 1]
                    ELSE [i \in 1..BlockSize |-> IF i = 1 THEN 1 ELSE 0]],
     nextid |-> 3]

NoArgs == [none |-> TRUE]

NoPrev == [op |-> "none", args |-> NoArgs, res |-> 0, pre |-> EmptyDb]

NoCall ==
    [op |-> "none", args |-> NoArgs, res |-> 0, ev |-> <<>>, mem |-> <<>>,
     out |-> NoOut, pre |-> EmptyDb, nested |-> FALSE, rw |-> 0, prev |-> NoPrev]

\* the handlers running at the same time, each on its own thread of the
\* bridge
Threads == {1, 2}

\* the outcome of a handler that has not run
NoResult == Result(0, EmptyDb, 0, <<>>, <<>>, NoOut)

\* a thread of the bridge with no handler in flight
IdleThread ==
    [step |-> "idle", op |-> "none", args |-> NoArgs, cn |-> 0, snap |-> EmptyDb,
     stale |-> {}, r |-> NoResult, res |-> 0, overlap |-> FALSE]

\* no handler in flight on any thread
NoTxns == [base |-> EmptyDb, th |-> [t \in Threads |-> IdleThread]]

\* pgfuse_init: one shared connection, or a pool of connections
InitConns(mt) ==
    [i \in 1..(IF mt THEN PoolSize ELSE 1) |-> [busy |-> FALSE, open |-> FALSE]]

\* the state after mounting database d
Mounted(d, ro, mt, q) ==
    /\ db = d
    /\ read_only = ro
    /\ multi_threaded = mt
    /\ conns = InitConns(mt)
    /\ fh = 0
    /\ pc = "idle"
    /\ last = NoCall
    /\ queued = q
    /\ txn = NoTxns

Init ==
    \E d \in {EmptyDb, PopulatedDb}, ro \in BOOLEAN, mt \in BOOLEAN :
        Mounted(d, ro, mt, FALSE)

FreeConns == {i \in DOMAIN conns : ~conns[i].busy}

\* psql_acquire: the shared connection, or a free one of the pool (the pool
\* blocks the caller while it has none)
psql_acquire == IF multi_threaded THEN CHOOSE i \in FreeConns : \A j \in FreeConns : i <= j
                ELSE 1

\* the calling context of one invocation
Callers == {[uid |-> 0, gid |-> 0]}
Clock == {1}
Ctx(ro, who, t) == [ro |-> ro, uid |-> who.uid, gid |-> who.gid, now |-> t]

\* the bridge can dispatch a request
Ready == pc = "idle" \/ (queued /\ pc = "ret")

\* the call answered in the same step as this dispatch, if any
Answered ==
    IF pc = "ret"
    THEN [op |-> last.op, args |-> last.args, res |-> last.res, pre |-> last.pre]
    ELSE NoPrev

\* One invocation of a handler, from its entry to its return.  r is the
\* handler's result, rw the value the same invocation returns on a
\* read-write mount.
Invoke(op, args, r, rw) ==
    /\ Ready
    /\ r.db.nextid <= MaxId + 1
    /\ multi_threaded => FreeConns # {}
    /\ LET cn == psql_acquire
           terminated == "commit" \in Range(r.ev) \/ "rollback" \in Range(r.ev)
           released == "release" \in Range(r.ev)
       IN /\ conns' = [conns EXCEPT ![cn] = [busy |-> multi_threaded /\ ~released,
                                              open |-> ~terminated]]
          /\ last' = [op |-> op, args |-> args, res |-> r.res, ev |-> r.ev,
                      mem |-> r.mem, out |-> r.out, pre |-> db,
                      nested |-> conns[cn].open, rw |-> rw, prev |-> Answered]
    /\ db' = r.db
    /\ fh' = r.fh
    /\ pc' = "ret"
    /\ UNCHANGED <<read_only, multi_threaded, queued, txn>>

\* ACQUIRE: psql_pool_acquire fails, the handler returns -EIO at once
AcquireFails(op) ==
    /\ Ready
    /\ multi_threaded
    /\ last' = [NoCall EXCEPT !.op = op, !.res = -EIO, !.pre = db, !.rw = -EIO,
                              !.prev = Answered]
    /\ pc' = "ret"
    /\ UNCHANGED <<db, read_only, multi_threaded, conns, fh, queued, txn>>

\* the reply is handed back to the kernel
Return ==
    /\ pc = "ret"
    /\ pc' = "idle"
    /\ last' = NoCall
    /\ UNCHANGED <<db, read_only, multi_threaded, conns, fh, queued, txn>>

Getattr(path, f) ==
    \E who \in Callers, t \in Clock :
        Invoke("getattr", [path |-> path],
               pgfuse_getattr(db, Ctx(read_only, who, t), path, fh, f),
               pgfuse_getattr(db, Ctx(FALSE, who, t), path, fh, f).res)

Fgetattr(f) ==
    \E who \in Callers, t \in Clock :
        Invoke("fgetattr", [fh |-> fh],
               pgfuse_fgetattr(db, Ctx(read_only, who, t), fh, f),
               pgfuse_fgetattr(db, Ctx(FALSE, who, t), fh, f).res)

Create(path, mode, f) ==
    \E who \in Callers, t \in Clock :
        Invoke("create", [path |-> path, mode |-> mode],
               pgfuse_create(db, Ctx(read_only, who, t), path, mode, fh, f),
               pgfuse_create(db, Ctx(FALSE, who, t), path, mode, fh, f).res)

Open(path, flags, f) ==
    \E who \in Callers, t \in Clock :
        Invoke("open", [path |-> path, flags |-> flags],
               pgfuse_open(db, Ctx(read_only, who, t), path, flags, fh, f),
               pgfuse_open(db, Ctx(FALSE, who, t), path, flags, fh, f).res)

Readdir(path, f) ==
    \E who \in Callers, t \in Clock :
        Invoke("readdir", [path |-> path],
               pgfuse_readdir(db, Ctx(read_only, who, t), path, fh, f),
               pgfuse_readdir(db, Ctx(FALSE, who, t), path, fh, f).res)

Mkdir(path, mode, f) ==
    \E who \in Callers, t \in Clock :
        Invoke("mkdir", [path |-> path, mode |-> mode],
               pgfuse_mkdir(db, Ctx(read_only, who, t), path, mode, fh, f),
               pgfuse_mkdir(db, Ctx(FALSE, who, t), path, mode, fh, f).res)

Rmdir(path, f) ==
    \E who \in Callers, t \in Clock :
        Invoke("rmdir", [path |-> path],
               pgfuse_rmdir(db, Ctx(read_only, who, t), path, fh, f),
               pgfuse_rmdir(db, Ctx(FALSE, who, t), path, fh, f).res)

Unlink(path, f) ==
    \E who \in Callers, t \in Clock :
        Invoke("unlink", [path |-> path],
               pgfuse_unlink(db, Ctx(read_only, who, t), path, fh, f),
               pgfuse_unlink(db, Ctx(FALSE, who, t), path, fh, f).res)

Write(buf, offset, f) ==
    \E who \in Callers, t \in Clock :
        Invoke("write", [buf |-> buf, offset |-> offset],
               pgfuse_write(db, Ctx(read_only, who, t), buf, offset, fh, f),
               pgfuse_write(db, Ctx(FALSE, who, t), buf, offset, fh, f).res)

Read(offset, size, f) ==
    \E who \in Callers, t \in Clock :
        Invoke("read", [offset |-> offset, size |-> size],
               pgfuse_read(db, Ctx(read_only, who, t), offset, size, fh, f),
               pgfuse_read(db, Ctx(FALSE, who, t), offset, size, fh, f).res)

Truncate(path, offset, f) ==
    \E who \in Callers, t \in Clock :
        Invoke("truncate", [path |-> path, offset |-> offset],
               pgfuse_truncate(db, Ctx(read_only, who, t), path, offset, fh, f),
               pgfuse_truncate(db, Ctx(FALSE, who, t), path, offset, fh, f).res)

Ftruncate(offset, f) ==
    \E who \in Callers, t \in Clock :
        Invoke("ftruncate", [offset |-> offset],
               pgfuse_ftruncate(db, Ctx(read_only, who, t), offset, fh, f),
               pgfuse_ftruncate(db, Ctx(FALSE, who, t), offset, fh, f).res)

Statfs(f) ==
    \E who \in Callers, t \in Clock :
        Invoke("statfs", NoArgs,
               pgfuse_statfs(db, Ctx(read_only, who, t), fh, f),
               pgfuse_statfs(db, Ctx(FALSE, who, t), fh, f).res)

Chmod(path, mode, f) ==
    \E who \in Callers, t \in Clock :
        Invoke("chmod", [path |-> path, mode |-> mode],
               pgfuse_chmod(db, Ctx(read_only, who, t), path, mode, fh, f),
               pgfuse_chmod(db, Ctx(FALSE, who, t), path, mode, fh, f).res)

Chown(path, uid, gid, f) ==
    \E who \in Callers, t \in Clock :
        Invoke("chown", [path |-> path, uid |-> uid, gid |-> gid],
               pgfuse_chown(db, Ctx(read_only, who, t), path, uid, gid, fh, f),
               pgfuse_chown(db, Ctx(FALSE, who, t), path, uid, gid, fh, f).res)

Utimens(path, tv, f) ==
    \E who \in Callers, t \in Clock :
        Invoke("utimens", [path |-> path, tv |-> tv],
               pgfuse_utimens(db, Ctx(read_only, who, t), path, tv, fh, f),
               pgfuse_utimens(db, Ctx(FALSE, who, t), path, tv, fh, f).res)

Symlink(from, to, f) ==
    \E who \in Callers, t \in Clock :
        Invoke("symlink", [target |-> from, path |-> to],
               pgfuse_symlink(db, Ctx(read_only, who, t), from, to, fh, f),
               pgfuse_symlink(db, Ctx(FALSE, who, t), from, to, fh, f).res)

Rename(from, to, f) ==
    \E who \in Callers, t \in Clock :
        Invoke("rename", [from |-> from, to |-> to],
               pgfuse_rename(db, Ctx(read_only, who, t), from, to, fh, f),
               pgfuse_rename(db, Ctx(FALSE, who, t), from, to, fh, f).res)

Readlink(path, size, f) ==
    \E who \in Callers, t \in Clock :
        Invoke("readlink", [path |-> path, size |-> size],
               pgfuse_readlink(db, Ctx(read_only, who, t), path, size, fh, f),
               pgfuse_readlink(db, Ctx(FALSE, who, t), path, size, fh, f).res)

\* One invocation of a handler that takes no connection.
InvokeBare(op, r) ==
    /\ Ready
    /\ last' = [op |-> op, args |-> [fh |-> fh], res |-> r.res, ev |-> r.ev,
                mem |-> r.mem, out |-> r.out, pre |-> db, nested |-> FALSE,
                rw |-> r.res, prev |-> Answered]
    /\ db' = r.db
    /\ fh' = r.fh
    /\ pc' = "ret"
    /\ UNCHANGED <<read_only, multi_threaded, conns, queued, txn>>

Access == \E who \in Callers, t \in Clock :
    InvokeBare("access", pgfuse_access(db, Ctx(read_only, who, t), fh))

Opendir == \E who \in Callers, t \in Clock :
    InvokeBare("opendir", pgfuse_opendir(db, Ctx(read_only, who, t), fh))

Releasedir == \E who \in Callers, t \in Clock :
    InvokeBare("releasedir", pgfuse_releasedir(db, Ctx(read_only, who, t), fh))

Fsyncdir == \E who \in Callers, t \in Clock :
    InvokeBare("fsyncdir", pgfuse_fsyncdir(db, Ctx(read_only, who, t), fh))

Flush == \E who \in Callers, t \in Clock :
    InvokeBare("flush", pgfuse_flush(db, Ctx(read_only, who, t), fh))

Fsync == \E who \in Callers, t \in Clock :
    InvokeBare("fsync", pgfuse_fsync(db, Ctx(read_only, who, t), fh))

Release == \E who \in Callers, t \in Clock :
    InvokeBare("release", pgfuse_release(db, Ctx(read_only, who, t), fh))

---------------------------------------------------------------------------
(* Spec: every handler that acquires a connection, on any mount *)

Handlers ==
    {"getattr", "fgetattr", "create", "open", "readdir", "mkdir", "rmdir",
     "unlink", "write", "read", "truncate", "ftruncate", "statfs", "chmod",
     "chown", "symlink", "rename", "readlink", "utimens"}

Paths == {<<>>, <<"a">>, <<"a", "b">>}
CreateModes == {S_IFREG + 420}
MkdirModes == {493}
\* chmod is handed a full mode_t: permission bits alone, or with type bits
ChmodModes == {384, S_IFREG + 384}
OpenFlags == {O_RDONLY, O_WRONLY}
Owners == {<<1, 1>>}
Utimes == {<<2, 2>>}
Targets == {<<1, 1, 1>>}
Bufs == {<<2>>}
Offsets == {0}
Sizes == {0, 1}
\* the paths chmod, and chown and utimens, are given
ChmodPaths == {<<"a">>}
MetaPaths == {<<"a", "b">>}
\* the paths rename is given as its source
RenameFrom == {<<"a">>, <<"a", "b">>}

CallGetattr == \E p \in Paths, f \in {"none", "db1"} : Getattr(p, f)
CallFgetattr == \E f \in {"none", "db1"} : Fgetattr(f)
CallCreate ==
    \E p \in Paths, m \in CreateModes,
       f \in {"none", "db1", "db2", "db3", "db4", "mem1", "mem2"} : Create(p, m, f)
CallOpen == \E p \in Paths, fl \in OpenFlags, f \in {"none", "db1", "db2"} : Open(p, fl, f)
CallReaddir == \E p \in Paths, f \in {"none", "db1", "db2"} : Readdir(p, f)
CallMkdir ==
    \E p \in Paths, m \in MkdirModes, f \in {"none", "db1", "db2", "mem1", "mem2"} :
        Mkdir(p, m, f)
CallRmdir == \E p \in Paths, f \in {"none", "db1", "db2"} : Rmdir(p, f)
CallUnlink == \E p \in Paths, f \in {"none", "db1", "db2"} : Unlink(p, f)
CallWrite ==
    \E b \in Bufs, o \in Offsets, f \in {"none", "db1", "db2", "db3", "short"} :
        Write(b, o, f)
CallRead == \E o \in Offsets, n \in {1, BlockSize + 1}, f \in {"none", "db1"} : Read(o, n, f)
CallTruncate ==
    \E p \in Paths, o \in Sizes, f \in {"none", "db1", "db2", "db3"} : Truncate(p, o, f)
CallFtruncate == \E o \in Sizes, f \in {"none", "db1", "db2", "db3"} : Ftruncate(o, f)
CallStatfs == \E f \in {"none", "db1", "db2", "db3", "host"} : Statfs(f)
CallChmod == \E p \in ChmodPaths, m \in ChmodModes, f \in {"none", "db1", "db2"} : Chmod(p, m, f)
CallChown == \E p \in MetaPaths, o \in Owners, f \in {"none", "db1", "db2"} : Chown(p, o[1], o[2], f)
CallUtimens == \E p \in MetaPaths, tv \in Utimes, f \in {"none", "db1", "db2"} : Utimens(p, tv, f)
CallSymlink ==
    \E t \in Targets, p \in Paths,
       f \in {"none", "db1", "db2", "db3", "db4", "mem1", "mem2", "short"} : Symlink(t, p, f)
CallRename ==
    \E p \in RenameFrom, q \in Paths,
       f \in {"none", "db1", "db2", "db3", "db4", "mem1", "mem2"} : Rename(p, q, f)
CallReadlink == \E p \in Paths, n \in {1, MaxOff}, f \in {"none", "db1", "db2"} : Readlink(p, n, f)
CallAcquireFails == \E op \in Handlers : AcquireFails(op)

Next ==
    \/ CallGetattr \/ CallFgetattr \/ CallCreate \/ CallOpen \/ CallReaddir
    \/ CallMkdir \/ CallRmdir \/ CallUnlink \/ CallWrite \/ CallRead
    \/ CallTruncate \/ CallFtruncate \/ CallStatfs \/ CallChmod \/ CallChown
    \/ CallUtimens \/ CallSymlink \/ CallRename \/ CallReadlink
    \/ CallAcquireFails \/ Return

Spec == Init /\ [][Next]_vars

---------------------------------------------------------------------------
(* SpecNS: the namespace handlers on a read-write mount of an empty        *)
(* database, every database call and allocation succeeding                 *)

NsPaths == {<<"a">>, <<"b">>, <<"a", "b">>}
NsTargets == {<<1>>}

\* p is a proper prefix of q: q lies inside the subtree of p
Inside(p, q) == Len(p) < Len(q) /\ SubSeq(q, 1, Len(p)) = p

NsCreate == \E p \in NsPaths, m \in CreateModes : Create(p, m, "none")
NsMkdir == \E p \in NsPaths, m \in MkdirModes : Mkdir(p, m, "none")
NsSymlink == \E t \in NsTargets, p \in NsPaths : Symlink(t, p, "none")
NsUnlink == \E p \in NsPaths : Unlink(p, "none")
NsRmdir == \E p \in NsPaths : Rmdir(p, "none")
NsRename == \E p \in NsPaths, q \in NsPaths : ~Inside(p, q) /\ Rename(p, q, "none")

InitNS == Mounted(EmptyDb, FALSE, FALSE, FALSE)

NextNS ==
    \/ NsCreate \/ NsMkdir \/ NsSymlink \/ NsUnlink \/ NsRmdir \/ NsRename
    \/ Return

SpecNS == InitNS /\ [][NextNS]_vars

---------------------------------------------------------------------------
(* SpecTree: the namespace handlers and chmod *)

TreeChmod == \E p \in NsPaths, m \in ChmodModes : Chmod(p, m, "none")

NextTree == NextNS \/ TreeChmod

SpecTree == InitNS /\ [][NextTree]_vars

---------------------------------------------------------------------------
(* SpecSeq: one process making and removing files and directories, its     *)
(* requests queued back to back                                            *)

InitSeq == Mounted(EmptyDb, FALSE, FALSE, TRUE)

NextSeq == NsCreate \/ NsMkdir \/ NsUnlink \/ NsRmdir \/ Return

SpecSeq == InitSeq /\ [][NextSeq]_vars

---------------------------------------------------------------------------
(* SpecData: the handlers that store, cut and delete file content, on one  *)
(* path of a read-write mount                                              *)

DataPath == <<"a">>
\* one byte, and one byte more than a block
DataBufs == {<<1>>, [i \in 1..(BlockSize + 1) |-> 2]}
DataOffsets == {0, 1, BlockSize + 1}
DataSizes == {0, 1, BlockSize, MaxOff}

DataCreate == \E m \in CreateModes : Create(DataPath, m, "none")
DataWrite ==
    \E b \in DataBufs, o \in DataOffsets, f \in {"none", "db3", "short"} : Write(b, o, f)
DataTruncate == \E n \in DataSizes, f \in {"none", "db3"} : Truncate(DataPath, n, f)
DataFtruncate == \E n \in DataSizes, f \in {"none", "db3"} : Ftruncate(n, f)
DataSymlink == \E t \in Targets, f \in {"none", "db4", "short"} : Symlink(t, DataPath, f)
DataUnlink == Unlink(DataPath, "none")

InitData == Mounted(EmptyDb, FALSE, FALSE, FALSE)

NextData ==
    \/ DataCreate \/ DataWrite \/ DataTruncate \/ DataFtruncate \/ DataSymlink
    \/ DataUnlink \/ Return

SpecData == InitData /\ [][NextData]_vars

---------------------------------------------------------------------------
(* SpecOwn: SpecData, the path also made and removed as a directory *)

OwnMkdir == \E m \in MkdirModes : Mkdir(DataPath, m, "none")
OwnRmdir == Rmdir(DataPath, "none")

NextOwn == NextData \/ OwnMkdir \/ OwnRmdir

SpecOwn == InitData /\ [][NextOwn]_vars

---------------------------------------------------------------------------
(* SpecShort: writes through one handle, the block engine storing every    *)
(* byte or one byte less than asked                                        *)

ShortWrite ==
    \E b \in DataBufs, o \in DataOffsets, f \in {"none", "short"} : Write(b, o, f)

NextShort == DataCreate \/ ShortWrite \/ DataUnlink \/ Return

SpecShort == InitData /\ [][NextShort]_vars

---------------------------------------------------------------------------
(* SpecIO: one process working on one open file, its requests queued back  *)
(* to back                                                                 *)

IoCreate == \E m \in CreateModes : Create(DataPath, m, "none")
IoWrite == \E b \in DataBufs, o \in DataOffsets : Write(b, o, "none")
IoRead == \E o \in DataOffsets, n \in {1, BlockSize + 1, 2 * BlockSize + 2} : Read(o, n, "none")
IoTruncate == \E n \in DataSizes : Truncate(DataPath, n, "none")
IoFtruncate == \E n \in {1, MaxOff} : Ftruncate(n, "none")

InitIO == Mounted(EmptyDb, FALSE, FALSE, TRUE)

NextIO == IoCreate \/ IoWrite \/ IoRead \/ IoTruncate \/ IoFtruncate \/ Return

SpecIO == InitIO /\ [][NextIO]_vars

---------------------------------------------------------------------------
(* SpecAttr: one process opening files and working through the handle, its *)
(* requests queued back to back                                            *)

AttrPaths == {<<"a">>, <<"b">>}

AttrCreate == \E p \in AttrPaths, m \in CreateModes : Create(p, m, "none")
AttrOpen == \E p \in AttrPaths, fl \in OpenFlags : Open(p, fl, "none")
AttrGetattr == \E p \in AttrPaths : Getattr(p, "none")
AttrFgetattr == Fgetattr("none")
AttrWrite == \E b \in DataBufs : Write(b, 0, "none")
AttrRead == \E n \in {1, BlockSize + 1} : Read(0, n, "none")
AttrFtruncate == \E n \in {0, 1} : Ftruncate(n, "none")

InitAttr == Mounted(EmptyDb, FALSE, FALSE, TRUE)

NextAttr ==
    \/ AttrCreate \/ AttrOpen \/ AttrGetattr \/ AttrFgetattr \/ AttrWrite
    \/ AttrRead \/ AttrFtruncate \/ Return

SpecAttr == InitAttr /\ [][NextAttr]_vars

---------------------------------------------------------------------------
(* SpecLink: one process making, reading and removing symlinks and files,  *)
(* its requests queued back to back                                        *)

LinkPaths == {<<"a">>, <<"b">>}
\* a target of one byte, and one a byte longer than a block
LinkTargets == {<<1>>, [i \in 1..(BlockSize + 1) |-> i]}

LinkSymlink == \E t \in LinkTargets, p \in LinkPaths : Symlink(t, p, "none")
LinkReadlink == \E p \in LinkPaths, n \in {1, 2, BlockSize + 2} : Readlink(p, n, "none")
LinkCreate == \E p \in LinkPaths, m \in CreateModes : Create(p, m, "none")
LinkUnlink == \E p \in LinkPaths : Unlink(p, "none")

InitLink == Mounted(EmptyDb, FALSE, FALSE, TRUE)

NextLink == LinkSymlink \/ LinkReadlink \/ LinkCreate \/ LinkUnlink \/ Return

SpecLink == InitLink /\ [][NextLink]_vars

---------------------------------------------------------------------------
(* SpecMeta: chmod, chown and utimens on a read-write mount of a database  *)
(* that holds a directory and a file with content                          *)

MetaTargets == {<<"a">>, <<"a", "b">>}
MetaOwners == {<<1, 1>>, <<2, 3>>}
MetaTimes == {<<2, 2>>, <<3, 4>>}

MetaChmod == \E p \in MetaTargets, m \in ChmodModes : Chmod(p, m, "none")
MetaChown == \E p \in MetaTargets, o \in MetaOwners : Chown(p, o[1], o[2], "none")
MetaUtimens == \E p \in MetaTargets, tv \in MetaTimes : Utimens(p, tv, "none")

InitMeta == Mounted(PopulatedDb, FALSE, FALSE, FALSE)

NextMeta == MetaChmod \/ MetaChown \/ MetaUtimens \/ Return

SpecMeta == InitMeta /\ [][NextMeta]_vars

---------------------------------------------------------------------------
(* SpecNoop: the handlers that take no connection, on any mount, with and  *)
(* without an open file                                                    *)

NoopCreate == \E m \in CreateModes : Create(<<"a", "b">>, m, "none")
NoopOpen == \E fl \in OpenFlags : Open(<<"a", "b">>, fl, "none")
NoopMkdir == \E m \in MkdirModes : Mkdir(<<"a">>, m, "none")
NoopUnlink == Unlink(<<"a", "b">>, "none")

NextNoop ==
    \/ Access \/ Opendir \/ Releasedir \/ Fsyncdir \/ Flush \/ Fsync \/ Release
    \/ NoopCreate \/ NoopOpen \/ NoopMkdir \/ NoopUnlink \/ Return

SpecNoop == Init /\ [][NextNoop]_vars

---------------------------------------------------------------------------
(* Properties of a handler's return, checked in the state it returns in    *)

\* the handler returned after ACQUIRE succeeded and PSQL_BEGIN was issued
Begun ==
    /\ pc = "ret"
    /\ Len(last.ev) >= 2
    /\ last.ev[1] = "acquire"
    /\ last.ev[2] = "begin"

\* C1: on every return path reached after a successful acquire and begin,
\* the transaction has been terminated exactly once (commit or rollback) and
\* then the connection has been released exactly once.
TerminatedOnceThenReleased ==
    Begun => \E t \in {"commit", "rollback"} :
                 last.ev = <<"acquire", "begin", t, "release">>

\* C2: a handler that has begun a transaction and returns a negative error
\* code has rolled the transaction back and has not committed it.
ErrorsRollBack ==
    (Begun /\ last.res < 0) =>
        ("rollback" \in Range(last.ev) /\ "commit" \notin Range(last.ev))

\* C3: a begin is never issued on a connection that still has a transaction
\* open from an earlier invocation, with a pool and with the single shared
\* connection alike.
BeginOnClosedTransaction ==
    (pc = "ret" /\ "begin" \in Range(last.ev)) => ~last.nested

MutatingOps ==
    {"create", "mkdir", "rmdir", "unlink", "write", "truncate", "ftruncate",
     "chmod", "chown", "utimens", "symlink", "rename"}

OpensForWriting == last.op = "open" /\ last.args.flags % (O_ACCMODE + 1) # O_RDONLY

\* C4: on a read-only mount every invocation of a mutating handler (and of
\* open with an access mode other than O_RDONLY) that would succeed on a
\* read-write mount returns -EROFS after rolling back, and open with
\* O_RDONLY on an existing file returns 0.
ReadOnlyRefusesMutation ==
    (read_only /\ Begun) =>
        /\ ((last.op \in MutatingOps \/ OpensForWriting) /\ last.rw >= 0) =>
               /\ last.res = -EROFS
               /\ last.ev = <<"acquire", "begin", "rollback", "release">>
        /\ (/\ last.op = "open"
            /\ last.args.flags % (O_ACCMODE + 1) = O_RDONLY
            /\ last.rw = 0) => last.res = 0

\* C5: on a read-only mount no invocation, succeeding or failing, changes
\* the committed database state: the inodes with all their metadata fields
\* and the blocks stay as they were at mount time.
ReadOnlyDatabaseUnchanged ==
    (read_only /\ pc = "ret") => db = last.pre

---------------------------------------------------------------------------
(* Properties of the stored blocks *)

\* C6: for every inode with size S every stored block index lies in
\* [0, ceil(S/B)), and after a successful truncate(p, 0) the inode at p has
\* size 0 and no blocks.
BlocksWithinSize ==
    /\ \A k \in DOMAIN db.blocks :
           k[1] \in Ids(db) =>
               (k[2] >= 0 /\ k[2] * BlockSize < db.inodes[k[1]].size)
    /\ (/\ pc = "ret"
        /\ last.op = "truncate"
        /\ last.res = 0
        /\ last.args.offset = 0) =>
           LET id == psql_read_meta_from_path(db, last.args.path)
           IN /\ id >= 0
              /\ db.inodes[id].size = 0
              /\ BlocksOf(db, id) = {}

\* a truncate(p, 0) has returned 0 for a file that had more than one block
TruncatedToZero ==
    /\ pc = "ret"
    /\ last.op = "truncate"
    /\ last.res = 0
    /\ last.args.offset = 0
    /\ LET id == psql_read_meta_from_path(last.pre, last.args.path)
       IN Cardinality(BlocksOf(last.pre, id)) > 1

---------------------------------------------------------------------------
(* Properties of the directory tree *)

\* C7: every directory inode's size equals the number of inodes whose
\* parent_id is that directory (its direct children).
DirSizeIsChildCount ==
    \A i \in Ids(db) :
        S_ISDIR(db.inodes[i].mode) =>
            db.inodes[i].size = Cardinality(DirectChildren(db, i))

\* C8: no two inodes share the same (parent_id, name), and every non-root
\* inode's parent_id refers to an existing inode of directory type.
TreeWellFormed ==
    /\ \A i, j \in Ids(db) :
           (/\ db.inodes[i].parent_id = db.inodes[j].parent_id
            /\ db.inodes[i].name = db.inodes[j].name) => i = j
    /\ \A i \in Ids(db) \ {RootId} :
           /\ db.inodes[i].parent_id \in Ids(db)
           /\ S_ISDIR(db.inodes[db.inodes[i].parent_id].mode)

---------------------------------------------------------------------------
(* Properties of file content, as read through the open handle *)

\* everything a read through handle h returns: read(h, 0, size of the file)
ReadAll(d, h) ==
    pgfuse_read(d, Ctx(FALSE, CHOOSE w \in Callers : TRUE, 0),
                0, d.inodes[h].size, h, "none").out.buf

\* this call is a read and the call answered just before it a successful write
ReadFollowsWrite ==
    /\ pc = "ret"
    /\ last.op = "read"
    /\ last.prev.op = "write"
    /\ last.prev.res >= 0

\* C9: after a successful write(p, d, o), a read(p, o, len(d)) through the
\* same handle returns exactly len(d) bytes equal to d, and a read returns
\* every byte outside [o, o+len(d)) that was readable before the write
\* unchanged.
ReadAfterWrite ==
    ReadFollowsWrite =>
        LET d == last.prev.args.buf
            o == last.prev.args.offset
            before == ReadAll(last.prev.pre, fh)
        IN /\ (last.args.offset = o /\ last.args.size = Len(d)) =>
                  (last.res = Len(d) /\ last.out.buf = d)
           /\ \A i \in 1..Len(last.out.buf) :
                  LET pos == last.args.offset + i - 1
                  IN (pos < Len(before) /\ ~(pos >= o /\ pos < o + Len(d))) =>
                         last.out.buf[i] = before[pos + 1]

\* a write of several bytes at an offset inside a block, over earlier
\* content, has been read back at its offset and length
UnalignedWriteReadBack ==
    /\ ReadFollowsWrite
    /\ last.prev.args.offset % BlockSize # 0
    /\ Len(last.prev.args.buf) > 1
    /\ last.args.offset = last.prev.args.offset
    /\ last.args.size = Len(last.prev.args.buf)
    /\ LET before == ReadAll(last.prev.pre, fh)
       IN Len(before) > 0 /\ before[1] # 0

\* the call answered just before this one was a successful truncation of
\* the open file, and this call successfully truncated or wrote it
GrowthFollowsTruncate ==
    /\ pc = "ret"
    /\ last.prev.op \in {"truncate", "ftruncate"}
    /\ last.prev.res = 0
    /\ last.op \in {"truncate", "ftruncate", "write"}
    /\ last.res >= 0
    /\ fh \in Ids(last.prev.pre)
    /\ fh \in Ids(db)

\* this call wrote position pos
Written(pos) ==
    /\ last.op = "write"
    /\ pos >= last.args.offset
    /\ pos < last.args.offset + Len(last.args.buf)

\* C10: for a file with content c, after truncate(p, n) with n < len(c)
\* followed by a growth to size m > n (a truncate or a write beyond n),
\* reading [0, m) yields c[0..n) followed by zero bytes in every position of
\* [n, m) that was not written after the shrink.
CutBytesStayCut ==
    GrowthFollowsTruncate =>
        LET c == ReadAll(last.prev.pre, fh)
            n == last.pre.inodes[fh].size
            m == db.inodes[fh].size
            now == ReadAll(db, fh)
        IN (n < Len(c) /\ m > n) =>
               /\ Len(now) = m
               /\ \A pos \in 0..(m - 1) :
                      now[pos + 1] =
                          IF Written(pos) THEN last.args.buf[pos - last.args.offset + 1]
                          ELSE IF pos < n THEN c[pos + 1]
                          ELSE 0

\* a truncate has cut a file inside a block, cutting off a non-zero byte,
\* and the file has grown again over that position without writing it
CutByteRegrown ==
    /\ GrowthFollowsTruncate
    /\ LET c == ReadAll(last.prev.pre, fh)
           n == last.pre.inodes[fh].size
           m == db.inodes[fh].size
       IN /\ n < Len(c)
          /\ m > n
          /\ n % BlockSize # 0
          /\ \E pos \in n..(m - 1) :
                 pos < Len(c) /\ c[pos + 1] # 0 /\ ~Written(pos)

---------------------------------------------------------------------------
(* Properties of read *)

\* a read through the open handle has returned bytes (possibly none)
ReadReturned ==
    /\ pc = "ret"
    /\ last.op = "read"
    /\ last.res >= 0

\* C11: for a file of size S, read(p, offset, length) returns
\* min(length, max(0, S - offset)) bytes: none when it starts at or past S,
\* never a byte at a position >= S, and a zero byte for every position in
\* an absent (sparse) block.
ReadLengthClamped ==
    ReadReturned =>
        LET S == db.inodes[fh].size
            n == Min(last.args.size, Max(0, S - last.args.offset))
        IN /\ last.res = n
           /\ Len(last.out.buf) = n
           /\ (last.args.offset >= S) => last.out.buf = <<>>
           /\ \A i \in 1..Len(last.out.buf) :
                  LET pos == last.args.offset + i - 1
                  IN /\ pos < S
                     /\ (<<fh, pos \div BlockSize>> \notin DOMAIN db.blocks) =>
                            last.out.buf[i] = 0

\* a read asking for more than the file holds has returned the bytes up to
\* the end of the file, some of them from an absent block and some stored
SparseReadCutAtEnd ==
    /\ ReadReturned
    /\ last.res > 0
    /\ last.res < last.args.size
    /\ \E i, j \in 1..Len(last.out.buf) :
           /\ <<fh, (last.args.offset + i - 1) \div BlockSize>> \notin DOMAIN db.blocks
           /\ last.out.buf[j] # 0

---------------------------------------------------------------------------
(* Properties of rename *)

\* a rename of an existing path has returned
RenameReturned ==
    /\ pc = "ret"
    /\ last.op = "rename"
    /\ psql_read_meta_from_path(last.pre, last.args.from) >= 0

\* the destination of the rename resolved to a regular file
OntoRegularFile ==
    LET to_id == psql_read_meta_from_path(last.pre, last.args.to)
    IN to_id >= 0 /\ S_ISREG(last.pre.inodes[to_id].mode)

\* C12: rename(from, to) with from # to and to resolving to an existing
\* regular file returns -EEXIST, and afterwards both paths resolve to the
\* inodes they resolved to before and the database is unchanged.
RenameRefusesOverwrite ==
    (RenameReturned /\ last.args.from # last.args.to /\ OntoRegularFile) =>
        /\ last.res = -EEXIST
        /\ db = last.pre
        /\ \A p \in {last.args.from, last.args.to} :
               psql_read_meta_from_path(db, p) = psql_read_meta_from_path(last.pre, p)

\* a file has been renamed onto another existing regular file
RenamedOntoOtherFile ==
    /\ RenameReturned
    /\ last.args.from # last.args.to
    /\ OntoRegularFile
    /\ S_ISREG(last.pre.inodes[psql_read_meta_from_path(last.pre, last.args.from)].mode)

\* C13: for every existing path p, whatever its type (regular file,
\* directory or symlink), rename(p, p) returns 0 and leaves the database
\* unchanged.
RenameOntoItselfSucceeds ==
    (RenameReturned /\ last.args.from = last.args.to) =>
        (last.res = 0 /\ db = last.pre)

---------------------------------------------------------------------------
(* Properties of create, mkdir, rmdir and unlink *)

\* the inode a path resolved to when the call that has returned was made
Target(path) == psql_read_meta_from_path(last.pre, path)

\* C14: create(path) on a read-write mount where path already resolves to
\* an inode returns -EISDIR if that inode is a directory and -EEXIST
\* otherwise; the inode, its blocks and its parent are unchanged and the
\* caller's file handle is not set.
CreateRefusesOverwrite ==
    [][(/\ pc' = "ret"
        /\ last'.op = "create"
        /\ ~read_only
        /\ psql_read_meta_from_path(db, last'.args.path) >= 0) =>
           LET id == psql_read_meta_from_path(db, last'.args.path)
           IN /\ last'.res = IF S_ISDIR(db.inodes[id].mode) THEN -EISDIR ELSE -EEXIST
              /\ db' = db
              /\ fh' = fh]_vars

\* create has been refused on a path that holds a regular file, while the
\* file handle holds the id of another open file
CreateOnExistingFile ==
    /\ pc = "ret"
    /\ last.op = "create"
    /\ Target(last.args.path) >= 0
    /\ S_ISREG(last.pre.inodes[Target(last.args.path)].mode)
    /\ fh # 0
    /\ fh # Target(last.args.path)

\* C15: create(path, mode) and mkdir(path, mode) on a read-write mount
\* return -ENOENT when the parent path does not resolve and -ENOTDIR when it
\* resolves to an inode that is not a directory, and create no inode in
\* either case.
ParentMustBeDirectory ==
    (pc = "ret" /\ last.op \in {"create", "mkdir"} /\ ~read_only) =>
        LET parent_id == Target(dirname(last.args.path))
        IN /\ parent_id < 0 => (last.res = -ENOENT /\ Ids(db) = Ids(last.pre))
           /\ (parent_id >= 0 /\ ~S_ISDIR(last.pre.inodes[parent_id].mode)) =>
                  (last.res = -ENOTDIR /\ Ids(db) = Ids(last.pre))

\* this call is create(d) and the call answered just before it was a
\* successful op(d)
CreateFollows(op) ==
    /\ pc = "ret"
    /\ last.op = "create"
    /\ last.prev.op = op
    /\ last.prev.res = 0
    /\ last.prev.args.path = last.args.path

\* after a successful rmdir(d), create(d) succeeds and d resolves to a new
\* regular-file inode
CreateAfterRmdirSucceeds ==
    CreateFollows("rmdir") =>
        LET id == psql_read_meta_from_path(db, last.args.path)
        IN /\ last.res = 0
           /\ id >= 0
           /\ id \notin Ids(last.pre)
           /\ S_ISREG(db.inodes[id].mode)

\* C16: for every path d, after mkdir(d) succeeds, create(d) returns
\* -EEXIST and changes nothing; after a subsequent successful rmdir(d),
\* create(d) succeeds and d resolves to a new regular-file inode.
MkdirCollisionIsEEXIST ==
    /\ CreateFollows("mkdir") => (last.res = -EEXIST /\ db = last.pre)
    /\ CreateAfterRmdirSucceeds

\* C16, amended: after mkdir(d) succeeds, create(d) returns -EISDIR and
\* changes nothing; after a subsequent successful rmdir(d), create(d)
\* succeeds and d resolves to a new regular-file inode.
MkdirCollisionIsEISDIR ==
    /\ CreateFollows("mkdir") => (last.res = -EISDIR /\ db = last.pre)
    /\ CreateAfterRmdirSucceeds

\* create(d) has been refused directly after mkdir(d) made the directory
\* under another directory
CreateRefusedAfterMkdir ==
    /\ CreateFollows("mkdir")
    /\ last.res < 0
    /\ Len(last.args.path) > 1

\* the names readdir(path) reports on database d
Listed(d, path) ==
    pgfuse_readdir(d, Ctx(FALSE, CHOOSE w \in Callers : TRUE, 0), path, 0, "none").out.names

BlocksHaveOwners ==
    /\ \A k \in DOMAIN db.blocks : k[1] \in Ids(db)
    /\ (pc = "ret" /\ last.op = "unlink" /\ Target(last.args.path) >= 0) =>
           LET id == Target(last.args.path)
           IN IF S_ISDIR(last.pre.inodes[id].mode)
              THEN last.res = -EPERM /\ db = last.pre
              ELSE /\ last.res = 0
                   /\ id \notin Ids(db)
                   /\ BlocksOf(db, id) = {}
                   /\ last.ev = <<"acquire", "begin", "commit", "release">>

\* unlink has removed a file that had more than one block
UnlinkedFileWithBlocks ==
    /\ pc = "ret"
    /\ last.op = "unlink"
    /\ last.res = 0
    /\ Cardinality(BlocksOf(last.pre, Target(last.args.path))) > 1

---------------------------------------------------------------------------
(* Properties of the operations on a file handle *)

\* C19: every handle-based operation (read, write, ftruncate, fgetattr)
\* invoked with a zero file handle returns -EBADF, reads no inode through
\* that handle and changes no database state.
ZeroHandleIsEBADF ==
    (/\ pc = "ret"
     /\ last.op \in {"read", "write", "ftruncate", "fgetattr"}
     /\ fh = 0) =>
        /\ last.res = -EBADF
        /\ db = last.pre
        /\ last.op = "fgetattr" => last.out = ZeroStat
        /\ last.op = "read" => last.out = NoOut

\* this call is fgetattr and the call answered just before it was a
\* successful open or create, which stored the id in the file handle
FgetattrFollowsOpen ==
    /\ pc = "ret"
    /\ last.op = "fgetattr"
    /\ last.prev.op \in {"open", "create"}
    /\ last.prev.res = 0

\* C20: for every path p, after open(p) or create(p) succeeds and stores id
\* h in the file handle, getattr(p) and fgetattr(h) with no intervening
\* mutation return identical metadata in every reported field (inode
\* number, mode, size, block count, block size, nlink, uid, gid, atime,
\* mtime, ctime).
GetattrEqualsFgetattr ==
    FgetattrFollowsOpen =>
        LET g == pgfuse_getattr(db, Ctx(FALSE, CHOOSE w \in Callers : TRUE, 0),
                                last.prev.args.path, fh, "none")
        IN /\ last.res = g.res
           /\ last.out = g.out

---------------------------------------------------------------------------
(* Properties of symlink and readlink *)

\* this call is readlink(p, buflen) and the call answered just before it
\* was a successful symlink(t, p)
ReadlinkFollowsSymlink ==
    /\ pc = "ret"
    /\ last.op = "readlink"
    /\ last.prev.op = "symlink"
    /\ last.prev.res = 0
    /\ last.prev.args.path = last.args.path

\* C21: after symlink(t, p) succeeds, the inode at p has symlink type with
\* permission bits 0777 and size len(t), and readlink(p, buflen) with
\* buflen >= len(t) + 1 returns 0 with the buffer holding t followed by a
\* NUL; readlink on a non-symlink returns -ENOENT, and with
\* buflen < size + 1 it fails without writing the buffer.
SymlinkReadlinkRoundTrip ==
    /\ (pc = "ret" /\ last.op = "symlink" /\ last.res = 0) =>
           LET id == psql_read_meta_from_path(db, last.args.path)
           IN /\ id >= 0
              /\ id \notin Ids(last.pre)
              /\ db.inodes[id].mode = S_IFLNK + 511
              /\ db.inodes[id].size = Len(last.args.target)
    /\ (ReadlinkFollowsSymlink /\ last.args.size >= Len(last.prev.args.target) + 1) =>
           /\ last.res = 0
           /\ last.out.buf = last.prev.args.target \o <<0>>
    /\ (pc = "ret" /\ last.op = "readlink" /\ Target(last.args.path) >= 0) =>
           LET meta == last.pre.inodes[Target(last.args.path)]
           IN /\ ~S_ISLNK(meta.mode) => last.res = -ENOENT
              /\ (S_ISLNK(meta.mode) /\ last.args.size < meta.size + 1) =>
                     (last.res < 0 /\ last.out = NoOut)

\* a symlink whose target spans two blocks has been read back in full
LongTargetReadBack ==
    /\ ReadlinkFollowsSymlink
    /\ Len(last.prev.args.target) > BlockSize
    /\ last.args.size >= Len(last.prev.args.target) + 1

---------------------------------------------------------------------------
(* Properties of write *)

\* a write through the handle of an existing file has returned
WriteReturned ==
    /\ pc = "ret"
    /\ last.op = "write"
    /\ fh # 0
    /\ fh \in Ids(last.pre)
    /\ ~read_only

\* C22: a successful write(h, len, offset) on a file of size S returns len
\* and leaves the stored size equal to max(S, offset + len), never
\* decreasing it; if the block engine reports a byte count different from
\* len, write returns -EIO after rollback and neither the size nor any
\* block of the file is changed.
WriteSetsSizeOrRollsBack ==
    WriteReturned =>
        LET S == last.pre.inodes[fh].size
            len == Len(last.args.buf)
        IN IF last.res >= 0
           THEN /\ last.res = len
                /\ fh \in Ids(db)
                /\ db.inodes[fh].size = Max(S, last.args.offset + len)
                /\ db.inodes[fh].size >= S
           ELSE /\ last.res = -EIO
                /\ last.ev = <<"acquire", "begin", "rollback", "release">>
                /\ db = last.pre

\* the block engine stored one byte less than asked of a write that would
\* have grown the file into a new block, and the write has returned
ShortWriteRefused ==
    /\ WriteReturned
    /\ last.res < 0
    /\ last.args.offset + Len(last.args.buf) > last.pre.inodes[fh].size
    /\ <<fh, last.args.offset \div BlockSize>> \notin DOMAIN last.pre.blocks

---------------------------------------------------------------------------
(* Properties of chmod, chown and utimens *)

\* the inode record a successful metadata-only call leaves behind
MetaAfter(meta) ==
    IF last.op = "chmod" THEN [meta EXCEPT !.mode = last.args.mode]
    ELSE IF last.op = "chown"
    THEN [meta EXCEPT !.uid = last.args.uid, !.gid = last.args.gid]
    ELSE [meta EXCEPT !.atime = last.args.tv[1], !.mtime = last.args.tv[2]]

\* C23: a successful chmod(p, m) changes only the mode of p's inode (to
\* exactly m), chown(p, u, g) only its uid and gid, and utimens(p, a, mt)
\* only its atime and mtime; the inode's size, name, parent and remaining
\* metadata fields, all blocks and all other inodes are unchanged.
MetadataOnlyUpdates ==
    (pc = "ret" /\ last.op \in {"chmod", "chown", "utimens"} /\ last.res = 0) =>
        LET id == Target(last.args.path)
        IN /\ id >= 0
           /\ db = [last.pre EXCEPT !.inodes[id] = MetaAfter(@)]

\* a metadata-only call has changed the inode of a file that has blocks
FileMetadataChanged ==
    /\ pc = "ret"
    /\ last.op \in {"chmod", "chown", "utimens"}
    /\ last.res = 0
    /\ BlocksOf(last.pre, Target(last.args.path)) # {}
    /\ db # last.pre

---------------------------------------------------------------------------
(* Properties of the handlers that take no connection *)

NoOps == {"flush", "release", "fsync", "fsyncdir", "opendir", "releasedir", "access"}

\* C24: flush, release, fsync, fsyncdir, opendir, releasedir and access
\* are no-ops: each returns 0 on every invocation, for every file handle
\* value and on read-write and read-only mounts alike, without acquiring a
\* connection or touching the database.
NoOpsReturnZero ==
    (pc = "ret" /\ last.op \in NoOps) =>
        /\ last.res = 0
        /\ last.ev = <<>>
        /\ db = last.pre

---------------------------------------------------------------------------
(* Properties of a successful return *)

\* C25: whenever a handler that began a transaction returns a non-negative
\* result, that transaction was committed, not rolled back and not left
\* open; a create that returns success has its new inode in the committed
\* state and its id in the file handle, and a rename that returns 0 has
\* ended its transaction.
SuccessMeansCommitted ==
    (Begun /\ last.res >= 0) =>
        /\ last.ev = <<"acquire", "begin", "commit", "release">>
        /\ last.op = "create" =>
               LET id == psql_read_meta_from_path(db, last.args.path)
               IN id >= 0 /\ id \notin Ids(last.pre) /\ fh = id

---------------------------------------------------------------------------
(* Properties of the connection pool *)

\* C26: in multi-threaded mode with a pool of N connections, every handler
\* invocation eventually acquires a connection and returns, after any
\* finite history of earlier invocations, failed ones included: whenever no
\* handler is executing, all N connections are back in the pool.
PoolRestoredWhenIdle ==
    (multi_threaded /\ pc \in {"idle", "ret"}) =>
        \A i \in DOMAIN conns : ~conns[i].busy

---------------------------------------------------------------------------
(* Handlers running at the same time                                       *)
(*                                                                         *)
(* In multi-threaded mode the bridge runs handlers on several threads and  *)
(* the handlers take no lock of their own: each one does ACQUIRE,          *)
(* PSQL_BEGIN, its database calls, and PSQL_COMMIT or PSQL_ROLLBACK on its *)
(* own connection.  What two transactions do to each other is the          *)
(* database's concurrency control, taken from spec.md 5 (row-level locks,  *)
(* serializable isolation): a transaction reads the committed state as of  *)
(* its first statement, sees its own writes only, and a write to a row     *)
(* that another transaction changed and committed since then fails.  The   *)
(* statements of one handler are therefore the handler's code run on its   *)
(* snapshot (TxnRead); its writes reach the committed state at PSQL_COMMIT *)
(* (TxnCommit), or the failing write takes the handler's error path.       *)

\* the file the concurrent handlers work on, created and written before:
\* inode 1 is /a with BlockSize + 1 bytes, and it is open
TxnDb ==
    [inodes |-> [i \in {RootId, 1} |->
                    IF i = RootId THEN Meta(RootId, "/", S_IFDIR + 493, 0, 0, 1, 0)
                    ELSE Meta(RootId, "a", S_IFREG + 420, 0, 0, BlockSize + 1, 1)],
     blocks |-> [k \in {<<1, 0>>, <<1, 1>>} |->
                    IF k[2] = 0 THEN [i \in 1..BlockSize |-> 1]
                    ELSE [i \in 1..BlockSize |-> IF i = 1 THEN 1 ELSE 0]],
     nextid |-> 2]

TxnPath == <<"a">>

\* the calls made at the same time, with their arguments
TxnCalls ==
    {[op |-> "chmod", args |-> [path |-> TxnPath, mode |-> S_IFREG + 384]],
     [op |-> "chown", args |-> [path |-> TxnPath, uid |-> 1, gid |-> 1]],
     [op |-> "utimens", args |-> [path |-> TxnPath, tv |-> <<2, 3>>]],
     [op |-> "write", args |-> [buf |-> <<2>>, offset |-> 0]],
     [op |-> "write", args |-> [buf |-> <<2>>, offset |-> 2 * BlockSize]],
     [op |-> "truncate", args |-> [path |-> TxnPath, offset |-> 0]],
     [op |-> "ftruncate", args |-> [offset |-> 1]]}

\* the handler's code, run on the state d its transaction sees
TxnHandler(op, args, d, f) ==
    LET c == Ctx(read_only, [uid |-> 0, gid |-> 0], 1)
    IN CASE op = "chmod" -> pgfuse_chmod(d, c, args.path, args.mode, fh, f)
         [] op = "chown" -> pgfuse_chown(d, c, args.path, args.uid, args.gid, fh, f)
         [] op = "utimens" -> pgfuse_utimens(d, c, args.path, args.tv, fh, f)
         [] op = "write" -> pgfuse_write(d, c, args.buf, args.offset, fh, f)
         [] op = "truncate" -> pgfuse_truncate(d, c, args.path, args.offset, fh, f)
         [] op = "ftruncate" -> pgfuse_ftruncate(d, c, args.offset, fh, f)

\* the inode a call works on: the path's, or the file handle's
TxnInode(op, args, d) ==
    IF op \in {"write", "ftruncate"} THEN fh
    ELSE psql_read_meta_from_path(d, args.path)

\* the database call that stores the metadata record: the second of chmod,
\* chown and utimens, the third of write, truncate and ftruncate
WriteMetaCall(op) ==
    IF op \in {"chmod", "chown", "utimens"} THEN "db2" ELSE "db3"

\* the rows a committing handler has written: its inode's row (every one
\* of these handlers ends with psql_write_meta) and the block rows it
\* changed, added or deleted
RowsWritten(op, args, snap, r) ==
    IF "commit" \notin Range(r.ev) THEN {}
    ELSE {<<"inodes", TxnInode(op, args, snap), 0>>}
         \cup {<<"blocks", k[1], k[2]>> :
                  k \in {j \in DOMAIN snap.blocks \cup DOMAIN r.db.blocks :
                            \/ j \notin DOMAIN snap.blocks
                            \/ j \notin DOMAIN r.db.blocks
                            \/ snap.blocks[j] # r.db.blocks[j]}}

\* a transaction that wrote only rows nobody committed since its snapshot
\* commits; one that wrote a row changed since then has had that write fail
Conflict(rows, stale) == rows \cap stale # {}

\* the committed state after a transaction's rows have replaced the old ones
Merge(d, rows, mine) ==
    LET keys == {k \in DOMAIN d.blocks \cup DOMAIN mine.blocks :
                    IF <<"blocks", k[1], k[2]>> \in rows
                    THEN k \in DOMAIN mine.blocks
                    ELSE k \in DOMAIN d.blocks}
    IN [d EXCEPT
           !.inodes = [i \in Ids(d) |->
                          IF <<"inodes", i, 0>> \in rows /\ i \in Ids(mine)
                          THEN mine.inodes[i] ELSE d.inodes[i]],
           !.blocks = [k \in keys |->
                          IF <<"blocks", k[1], k[2]>> \in rows
                          THEN mine.blocks[k] ELSE d.blocks[k]]]

InFlight(t) == txn.th[t].step \in {"begun", "read"}

\* ACQUIRE( conn ); PSQL_BEGIN( conn );   on the thread's own connection
TxnBegin(t, call) ==
    /\ txn.th[t].step = "idle"
    /\ FreeConns # {}
    /\ LET cn == psql_acquire
           others == \E u \in Threads \ {t} : InFlight(u)
           fresh == \A u \in Threads : txn.th[u].step = "idle"
       IN /\ conns' = [conns EXCEPT ![cn] = [busy |-> TRUE, open |-> TRUE]]
          /\ txn' = [base |-> IF fresh THEN db ELSE txn.base,
                     th |-> [u \in Threads |->
                                IF u = t
                                THEN [IdleThread EXCEPT !.step = "begun",
                                                        !.op = call.op,
                                                        !.args = call.args,
                                                        !.cn = cn,
                                                        !.overlap = others]
                                ELSE IF InFlight(u)
                                THEN [txn.th[u] EXCEPT !.overlap = TRUE]
                                ELSE txn.th[u]]]
    /\ UNCHANGED <<db, read_only, multi_threaded, fh, pc, last, queued>>

\* the handler's database calls, from its first read to its last write, on
\* the state committed when the first one is made
TxnRead(t) ==
    /\ txn.th[t].step = "begun"
    /\ txn' = [txn EXCEPT
                  !.th[t].step = "read",
                  !.th[t].snap = db,
                  !.th[t].stale = {},
                  !.th[t].r = TxnHandler(txn.th[t].op, txn.th[t].args, db, "none")]
    /\ UNCHANGED <<db, read_only, multi_threaded, conns, fh, pc, last, queued>>

\* PSQL_COMMIT( conn ) or PSQL_ROLLBACK( conn ); RELEASE( conn ); return res;
TxnCommit(t) ==
    /\ txn.th[t].step = "read"
    /\ LET me == txn.th[t]
           rows == RowsWritten(me.op, me.args, me.snap, me.r)
           failed == TxnHandler(me.op, me.args, me.snap, WriteMetaCall(me.op))
           out == IF Conflict(rows, me.stale) THEN failed ELSE me.r
           stored == "commit" \in Range(me.r.ev) /\ ~Conflict(rows, me.stale)
       IN /\ db' = IF stored THEN Merge(db, rows, me.r.db) ELSE db
          /\ conns' = [conns EXCEPT ![me.cn] = [busy |-> FALSE, open |-> FALSE]]
          /\ txn' = [txn EXCEPT
                        !.th = [u \in Threads |->
                                   IF u = t
                                   THEN [me EXCEPT !.step = "done", !.res = out.res]
                                   ELSE IF txn.th[u].step = "read" /\ stored
                                   THEN [txn.th[u] EXCEPT !.stale = @ \cup rows]
                                   ELSE txn.th[u]]]
    /\ UNCHANGED <<read_only, multi_threaded, fh, pc, last, queued>>

\* the replies are consumed; the threads take the next requests
TxnNext ==
    /\ \A t \in Threads : ~InFlight(t)
    /\ \E t \in Threads : txn.th[t].step = "done"
    /\ txn' = [txn EXCEPT !.th = [t \in Threads |-> IdleThread]]
    /\ UNCHANGED <<db, read_only, multi_threaded, conns, fh, pc, last, queued>>

InitTxn ==
    /\ db = TxnDb
    /\ read_only = FALSE
    /\ multi_threaded = TRUE
    /\ conns = [i \in Threads |-> [busy |-> FALSE, open |-> FALSE]]
    /\ fh = 1
    /\ pc = "idle"
    /\ last = NoCall
    /\ queued = FALSE
    /\ txn = [NoTxns EXCEPT !.base = TxnDb]

TxnBegins == \E t \in Threads, call \in TxnCalls : TxnBegin(t, call)
TxnReads == \E t \in Threads : TxnRead(t)
TxnCommits == \E t \in Threads : TxnCommit(t)

NextTxn == TxnBegins \/ TxnReads \/ TxnCommits \/ TxnNext

SpecTxn == InitTxn /\ [][NextTxn]_vars

---------------------------------------------------------------------------
(* Properties of handlers running at the same time *)

\* both calls have returned
BothReturned == \A t \in Threads : txn.th[t].step = "done"

\* both calls have returned success
BothSucceeded == BothReturned /\ \A t \in Threads : txn.th[t].res >= 0

\* both handlers were executing at the same time
RanConcurrently == \A t \in Threads : txn.th[t].overlap

\* the two calls are the given ones, on either thread
CallsAre(op1, op2) ==
    \E a, b \in Threads :
        a # b /\ txn.th[a].op = op1 /\ txn.th[b].op = op2

\* the metadata fields a handler changes in the record it writes back
FieldsOf(op) ==
    CASE op = "chmod" -> {"mode"}
      [] op = "chown" -> {"uid", "gid"}
      [] op = "utimens" -> {"atime", "mtime"}
      [] OTHER -> {"size"}

\* the outcome of thread a's call followed by thread b's, one after the
\* other, from the state committed before either began
Serial(a, b) ==
    TxnHandler(txn.th[b].op, txn.th[b].args,
               TxnHandler(txn.th[a].op, txn.th[a].args, txn.base, "none").db,
               "none")

\* C27: when two handlers run at the same time on one inode and both return
\* success, the committed state is the one that running the two handlers
\* one after the other, in some order, produces; and when they change
\* different metadata fields, each field holds the value its handler
\* stored: no full-record write has put a stale value back.
ConcurrentUpdatesSerial ==
    BothSucceeded =>
        /\ \E a, b \in Threads : a # b /\ db = Serial(a, b).db
        /\ \A a, b \in Threads :
               (a # b /\ FieldsOf(txn.th[a].op) \cap FieldsOf(txn.th[b].op) = {}) =>
                   LET id == TxnInode(txn.th[a].op, txn.th[a].args, txn.base)
                       alone == TxnHandler(txn.th[a].op, txn.th[a].args,
                                           txn.base, "none").db
                   IN \A fld \in FieldsOf(txn.th[a].op) :
                          db.inodes[id][fld] = alone.inodes[id][fld]

\* a chmod and a size-growing write that were executing at the same time
\* have both returned success
ChmodAndGrowingWriteDone ==
    /\ BothSucceeded
    /\ RanConcurrently
    /\ CallsAre("chmod", "write")
    /\ db.inodes[1].mode = S_IFREG + 384
    /\ db.inodes[1].size = 2 * BlockSize + 1
    /\ txn.base.inodes[1].mode # S_IFREG + 384
    /\ txn.base.inodes[1].size < 2 * BlockSize + 1

\* C28: under every interleaving of a write with a truncate or an ftruncate
\* of the same file, each in its own transaction, once both have returned
\* every stored block of the file has an index in [0, ceil(size / B)): no
\* block of the write is left beyond the size the truncation stored.
WriteTruncateBlocksInRange ==
    (BothReturned /\ (CallsAre("write", "truncate") \/ CallsAre("write", "ftruncate"))) =>
        \A k \in BlocksOf(db, fh) :
            k[2] >= 0 /\ k[2] * BlockSize < db.inodes[fh].size

\* a write past the end and a truncation that were executing at the same
\* time have both committed
WriteAndTruncateDone ==
    /\ BothSucceeded
    /\ RanConcurrently
    /\ CallsAre("write", "truncate") \/ CallsAre("write", "ftruncate")
    /\ \E t \in Threads : txn.th[t].op = "write" /\ txn.th[t].args.offset = 2 * BlockSize
    /\ txn.base.inodes[fh].size > 1

---------------------------------------------------------------------------
(* The shape of the parent_id graph *)

\* renames between any two of the paths, a directory into its own subtree
\* included
TreeMkdir == \E p \in NsPaths, m \in MkdirModes : Mkdir(p, m, "none")
TreeCreate == \E p \in NsPaths, m \in CreateModes : Create(p, m, "none")
TreeRename == \E p \in NsPaths, q \in NsPaths : Rename(p, q, "none")
TreeRmdir == \E p \in NsPaths : Rmdir(p, "none")
TreeUnlink == \E p \in NsPaths : Unlink(p, "none")

NextGraph == TreeMkdir \/ TreeCreate \/ TreeRename \/ TreeRmdir \/ TreeUnlink \/ Return

SpecGraph == InitNS /\ [][NextGraph]_vars

\* following parent_id from inode i arrives at the root within n steps
RECURSIVE ReachesRoot(_, _, _)
ReachesRoot(d, i, n) ==
    IF i = RootId THEN TRUE
    ELSE IF n = 0 \/ i \notin Ids(d) THEN FALSE
    ELSE ReachesRoot(d, d.inodes[i].parent_id, n - 1)

\* C29: after any sequence of handler invocations the only cycle of the
\* parent_id graph is the root's self-loop and every inode reaches the root
\* along parent_id; no successful rename, that of a directory to a path
\* inside its own subtree included, leaves an inode that path resolution
\* from the root cannot reach.
ParentGraphIsTree ==
    /\ db.inodes[RootId].parent_id = RootId
    /\ \A i \in Ids(db) : ReachesRoot(db, i, Cardinality(Ids(db)))
    /\ \A i \in Ids(db) \ {RootId} : db.inodes[i].parent_id # i

---------------------------------------------------------------------------
(* The root inode *)

\* the handlers that change or remove an inode, called on "/" as on any
\* other path
RootModes == ChmodModes \cup {S_IFDIR + 448}

RootMkdir == \E p \in Paths, m \in MkdirModes : Mkdir(p, m, "none")
RootRmdir == \E p \in Paths : Rmdir(p, "none")
RootUnlink == \E p \in Paths : Unlink(p, "none")
RootRename == \E p \in Paths, q \in Paths : Rename(p, q, "none")
RootChmod == \E p \in Paths, m \in RootModes : Chmod(p, m, "none")

NextRoot == RootMkdir \/ RootRmdir \/ RootUnlink \/ RootRename \/ RootChmod \/ Return

SpecRoot == InitNS /\ [][NextRoot]_vars

\* the inodes that are their own parent
SelfParents(d) == {i \in Ids(d) : d.inodes[i].parent_id = i}

\* C30: after any sequence of handler invocations on a read-write mount,
\* rmdir("/"), unlink("/"), rename with "/" as source and chmod("/")
\* included, exactly one inode has id = parent_id, it is a directory, and
\* the path "/" resolves to it: no handler removes, re-parents or changes
\* the type of the root.
RootPreserved ==
    /\ Cardinality(SelfParents(db)) = 1
    /\ \A i \in SelfParents(db) :
           /\ S_ISDIR(db.inodes[i].mode)
           /\ psql_read_meta_from_path(db, <<>>) = i

---------------------------------------------------------------------------
(* The host part of statfs                                                 *)
(*                                                                         *)
(* A path of the host is the sequence of its characters.  An entry of the  *)
(* mount table carries its mount point and what statfs(2) reports for the  *)
(* file system mounted there; location is the array of tablespace          *)
(* directories, as realpath(3) left them.                                  *)

\* strncmp( mnt.mnt_dir, location[i], strlen( mnt.mnt_dir ) ) == 0
IsPrefix(dir, loc) == Len(dir) <= Len(loc) /\ SubSeq(loc, 1, Len(dir)) = dir

\* blocks_free = INT64_MAX; blocks_avail = INT64_MAX;  "no value yet"
Unlimited == [set |-> FALSE, n |-> 0]

Blocks(n) == [set |-> TRUE, n |-> n]

\* if( fs.f_bavail * fs.f_frsize < blocks_avail * data->block_size )
\*     blocks_avail = fs.f_bavail * fs.f_frsize / data->block_size;
\* block_size is a size_t, so both products are taken in 64 unsigned bits:
\* INT64_MAX * block_size wraps to 2^64 - block_size or 2^63 - block_size,
\* above the byte count of every file system of the model
TakeSmaller(count, frsize, blocks, block_size) ==
    IF ~blocks.set THEN Blocks((count * frsize) \div block_size)
    ELSE IF count * frsize < blocks.n * block_size
    THEN Blocks((count * frsize) \div block_size)
    ELSE blocks

\* one pass of the while loop over getmntent_r: the entry is skipped when
\* its mount point is a prefix of no location; else prefix is set, which
\* puts the two counters back to INT64_MAX, and the entry's file system is
\* compared with them
RECURSIVE MountLoop(_, _, _, _, _)
MountLoop(mtab, k, location, block_size, acc) ==
    IF k > Len(mtab) THEN acc
    ELSE LET m == mtab[k]
             hit == \E i \in DOMAIN location :
                        IsPrefix(m.dir, location[i]) /\ Len(m.dir) > 0
         IN IF ~hit THEN MountLoop(mtab, k + 1, location, block_size, acc)
            ELSE MountLoop(mtab, k + 1, location, block_size,
                           [free |-> TakeSmaller(m.bfree, m.frsize, Unlimited, block_size),
                            avail |-> TakeSmaller(m.bavail, m.frsize, Unlimited, block_size)])

\* blocks_total = blocks_avail + blocks_used; blocks_free = blocks_avail;
\* and the block fields of the struct statvfs handed back
StatfsWithHost(d, c, h, f, mtab, location) ==
    LET r == pgfuse_statfs(d, c, h, f)
        host == MountLoop(mtab, 1, location, BlockSize,
                          [free |-> Unlimited, avail |-> Unlimited])
        blocks_avail == host.avail.n
        blocks_total == blocks_avail + r.out.blocks_used
        blocks_free == blocks_avail
    IN IF r.res < 0 THEN r
       ELSE [r EXCEPT !.out = [blocks_used |-> r.out.blocks_used,
                               files_used |-> r.out.files_used,
                               bsize |-> r.out.bsize,
                               rdonly |-> r.out.rdonly,
                               f_blocks |-> blocks_total,
                               f_bfree |-> blocks_free,
                               f_bavail |-> blocks_avail]]

StatfsHost(mtab, location, f) ==
    \E who \in Callers, t \in Clock :
        Invoke("statfs", [mtab |-> mtab, location |-> location],
               StatfsWithHost(db, Ctx(read_only, who, t), fh, f, mtab, location),
               StatfsWithHost(db, Ctx(FALSE, who, t), fh, f, mtab, location).res)

\* the file systems of the host: the root and two mounted below it
RootFs == [dir |-> <<"/">>, bavail |-> 8, bfree |-> 9, frsize |-> 1]
DFs == [dir |-> <<"/", "d">>, bavail |-> 3, bfree |-> 4, frsize |-> 2]
EFs == [dir |-> <<"/", "e">>, bavail |-> 5, bfree |-> 5, frsize |-> 1]

\* the mount tables: the root is always mounted, the entries in any order
MountTables ==
    {<<RootFs>>,
     <<RootFs, DFs>>, <<DFs, RootFs>>,
     <<RootFs, EFs>>, <<EFs, RootFs>>,
     <<RootFs, DFs, EFs>>, <<RootFs, EFs, DFs>>, <<DFs, RootFs, EFs>>,
     <<DFs, EFs, RootFs>>, <<EFs, RootFs, DFs>>, <<EFs, DFs, RootFs>>}

\* the tablespace directories /d/x, /e/y and /x
Dirs == {<<"/", "d", "/", "x">>, <<"/", "e", "/", "y">>, <<"/", "x">>}

Locations == {<<a>> : a \in Dirs} \cup {<<a, b>> : a \in Dirs, b \in Dirs}

HostStatfs == \E mt \in MountTables, loc \in Locations : StatfsHost(mt, loc, "none")
HostCreate == Create(DataPath, S_IFREG + 420, "none")
HostWrite == \E o \in {0, BlockSize} : Write(<<1>>, o, "none")
HostUnlink == Unlink(DataPath, "none")

NextHost == HostStatfs \/ HostCreate \/ HostWrite \/ HostUnlink \/ Return

SpecHost == InitData /\ [][NextHost]_vars

\* the entry with the longest mount point that is a prefix of loc
LongestPrefixMount(mtab, loc) ==
    CHOOSE m \in Range(mtab) :
        /\ IsPrefix(m.dir, loc)
        /\ \A o \in Range(mtab) : IsPrefix(o.dir, loc) => Len(o.dir) <= Len(m.dir)

\* the available blocks of an entry's file system, in blocks of BlockSize
AvailIn(m) == (m.bavail * m.frsize) \div BlockSize

\* the minimum, over the locations, of what their mount points have left
WorstCaseAvail(mtab, location) ==
    LET each == {AvailIn(LongestPrefixMount(mtab, location[i])) : i \in DOMAIN location}
    IN CHOOSE n \in each : \A o \in each : n <= o

\* C31: for every mount table and every set of tablespace directories, the
\* available blocks statfs reports are the minimum, over the tablespace
\* directories, of the available blocks (in units of the block size) of the
\* directory's longest-prefix mount point, whatever the order of the mount
\* table; total blocks are used + available and free equals available.
StatfsReportsWorstCase ==
    (pc = "ret" /\ last.op = "statfs" /\ last.res = 0) =>
        /\ last.out.f_bavail = WorstCaseAvail(last.args.mtab, last.args.location)
        /\ last.out.f_blocks = last.out.blocks_used + last.out.f_bavail
        /\ last.out.f_bfree = last.out.f_bavail

---------------------------------------------------------------------------
(* Properties of the temporary buffers *)

\* how often a call occurs among the strdup and free calls of a handler
Occurs(mem, call) == Cardinality({i \in DOMAIN mem : mem[i] = call})

\* the buffer of one strdup is freed once, after it was allocated, or was
\* never allocated and never freed
FreedOnce(mem, alloc, release) ==
    /\ Occurs(mem, alloc) <= 1
    /\ Occurs(mem, release) = Occurs(mem, alloc)
    /\ \A i, j \in DOMAIN mem : (mem[i] = alloc /\ mem[j] = release) => i < j

\* C32: every temporary buffer a handler allocates (the path copies of
\* create, mkdir, symlink and rename) is freed exactly once before the
\* handler returns, on the success path and on every error path, lookup
\* failures and allocation failures included: no buffer is leaked and no
\* pointer is freed twice or after its buffer was freed.
BuffersFreedOnce ==
    (pc = "ret" /\ last.op \in {"create", "mkdir", "symlink", "rename"}) =>
        /\ FreedOnce(last.mem, "strdup1", "free1")
        /\ FreedOnce(last.mem, "strdup2", "free2")

====
